---- MODULE Spec2Model ----
(***************************************************************************)
(* A model of parts of dorado:                                             *)
(*                                                                         *)
(*  - utils::realign_moves (dorado/utils/sequence_utils.cpp), the          *)
(*    move-table realignment, with its two collaborators compute_overlap   *)
(*    (minimap2) and edlibAlign (edlib); specification Spec.               *)
(*  - utils::moves_to_map, utils::move_cum_sums and                        *)
(*    utils::trim_move_table, the coordinate maps and the trimming of a    *)
(*    move table; specification MapSpec.                                   *)
(*  - basecaller() and setup() (dorado/cli/basecaller.cpp), the driver of  *)
(*    one basecalling run including the resume feature; specification      *)
(*    RunSpec.                                                             *)
(*  - the option handling of basecaller() and the pipeline descriptor      *)
(*    setup() builds from it; specification BuildSpec.                     *)
(*  - the pipeline built from the descriptor at work, from its creation to *)
(*    the return of terminate; specifications PipeSpec and, with the       *)
(*    threads scheduled fairly, PipeLiveSpec.                              *)
(*  - the choice of the output format from the command-line flags,       *)
(*    followed by the option handling of an accepted run; specification    *)
(*    OptSpec.                                                             *)
(*                                                                         *)
(* C++ indices are 0-based and TLA+ sequences 1-based: the C++ element     *)
(* s[k] is the TLA+ element s[k + 1]; every cursor below holds the C++     *)
(* value.                                                                  *)
(***************************************************************************)
EXTENDS Integers, Sequences, FiniteSets, TLC

\* ------------------------------------------------------------------ bounds

\* Longest original (query) sequence drawn as an input.
MaxQueryLen == 4
\* Longest revised (target) sequence drawn as an input.
MaxTargetLen == 4
\* Longest move table drawn as an input.
MaxMoves == 3
\* An out-of-range read may still return a byte up to OobSlack elements past
\* the first element outside the buffer; further out it traps.
OobSlack == 0

\* Longest move table drawn as an input of the coordinate maps, beside the
\* table of the unit tests.
MaxMapMoves == 4
\* Largest block stride drawn.
MaxStride == 2
\* Number of reads the data path can hold.
NumReads == 2
\* Number of basecaller runs in a row (a first run and the resumes after it).
MaxRuns == 3

\* Largest number of devices the basecall runners are created on.
MaxDevices == 2
\* Largest thread count asked for the modified-base stage.
MaxRemoraThreads == 2
\* Largest value std::thread::hardware_concurrency reports.
MaxHostThreads == 2
\* Number of reads the data loader feeds into the pipeline.
NumPipeReads == 2
\* Capacity of the input queue of a node.
QueueCap == 2

\* ------------------------------------------------------------- vocabulary

Bases == {"A", "C"}
\* The terminator std::string::operator[] yields at index size().
NUL == "nul"
Flags == {0, 1}
\* What a byte read past the end of the move table may hold.
GarbageBytes == {0, 1, 255}

SeqsUpTo(S, n) == UNION {[1..k -> S] : k \in 0..n}

RECURSIVE CountOnes(_)
CountOnes(m) == IF m = <<>> THEN 0 ELSE (IF m[1] = 1 THEN 1 ELSE 0) + CountOnes(Tail(m))

RECURSIVE CountOp(_, _)
CountOp(p, op) == IF p = <<>> THEN 0 ELSE (IF p[1] = op THEN 1 ELSE 0) + CountOp(Tail(p), op)

Min2(a, b) == IF a < b THEN a ELSE b

\* ------------------------------------------------------------------ state

VARIABLES
    \* realign_moves: arguments
    query_sequence, target_sequence, moves,
    \* realign_moves: position in the function body
    pc,
    \* realign_moves: locals
    is_overlap, query_start, query_end, target_start, target_end,
    target_sequence_component, query_sequence_component,
    alignment, alignment_size, loop_i,
    new_moves, new_move_cursor, old_move_cursor, old_moves_offset, moves_found,
    \* realign_moves: how the call ended and what it returned
    outcome, ret,
    \* observers: which collaborators were invoked and what the overlap detector
    \* returned, whether a read left a sequence (seq_oob) or the move table (oob)
    overlap_called, edlib_called, overlap_result, seq_oob, oob,
    \* moves_to_map / move_cum_sums: arguments (with moves), position, results
    block_stride, signal_len, map_pc, seq_to_sig_map, ans,
    \* trim_move_table: the interval of bases to keep, and what it returned
    trim_interval, trimmed,
    \* basecaller: the data path, the prior output offered to --resume-from
    data_reads, artifact,
    \* basecaller / setup: position, arguments and locals of the current run
    run_pc, run_no, model_arg, resume_from_file, model_selection, model_path,
    model_name, temp_download_paths, temp_cleaned,
    pipeline, header_written, hdr_cl, reads_already_processed,
    loader_skip, fed, in_flight, out, stats_sampler, final_stats,
    \* basecaller: how the run ended
    exit_status, ended_by,
    \* observers of the resume steps of the current run
    validations, rejected, copy_called, replayed, load_called,
    \* basecaller: --reference is given; setup: the lines of the header written
    ref, hdr,
    \* setup: the record count the progress tracker last saw; summarize was called
    progress, summarized, runners,
    \* basecaller: the options of the command line that shape the graph
    trim_options, no_trim, estimate_poly_a, kit_name_used, barcode_arrangement_used,
    \* the machine: devices, modified-base runners and threads, host threads
    num_devices, remora_runners, num_remora_threads, hardware_concurrency,
    \* basecaller: position and locals of the option handling
    build_pc, no_trim_barcodes, no_trim_primers, no_trim_adapters, custom_kit,
    build_exit,
    \* setup: the thread allocations and the pipeline descriptor being built
    thread_allocations, pipeline_desc, hts_writer, aligner, current_sink_node,
    \* setup: position of the driver of the pipeline, reads still to be loaded
    pipe_pc, source_left,
    \* the pipeline: the input queue of every node, the record the writer
    \* holds, how often each record was written, the records the filter dropped
    queue, writing, written, dropped,
    \* the counters of the nodes, and what terminate returned
    node_stats, terminate_calls, pending_at_terminate, terminate_stats,
    \* basecaller: the options of the output format and of the modified bases,
    \* what stdout is, and the output mode selected
    emit_fastq, emit_sam, has_mods_variant, mod_bases, mod_bases_models,
    stdout_fd, output_mode

realign_vars == <<query_sequence, target_sequence, moves, pc,
                  is_overlap, query_start, query_end, target_start, target_end,
                  target_sequence_component, query_sequence_component,
                  alignment, alignment_size, loop_i,
                  new_moves, new_move_cursor, old_move_cursor, old_moves_offset,
                  moves_found, outcome, ret, overlap_called, edlib_called,
                  overlap_result, seq_oob, oob>>

\* realign_vars without the move table, which the coordinate maps also take.
realign_locals == <<query_sequence, target_sequence, pc,
                    is_overlap, query_start, query_end, target_start, target_end,
                    target_sequence_component, query_sequence_component,
                    alignment, alignment_size, loop_i,
                    new_moves, new_move_cursor, old_move_cursor, old_moves_offset,
                    moves_found, outcome, ret, overlap_called, edlib_called,
                    overlap_result, seq_oob, oob>>

map_vars == <<block_stride, signal_len, map_pc, seq_to_sig_map, ans,
              trim_interval, trimmed>>

\* The locals of one run of basecaller.
run_locals == <<model_arg, resume_from_file, model_selection, model_path,
                model_name, temp_download_paths, temp_cleaned,
                pipeline, header_written, hdr_cl, reads_already_processed,
                loader_skip, fed, in_flight, out, stats_sampler, final_stats,
                exit_status, ended_by, validations, rejected, copy_called,
                replayed, load_called, ref, hdr, progress, summarized, runners>>

run_vars == <<data_reads, artifact, run_pc, run_no, run_locals>>

build_vars == <<trim_options, no_trim, estimate_poly_a, kit_name_used,
                barcode_arrangement_used, num_devices, remora_runners,
                num_remora_threads, hardware_concurrency, build_pc,
                no_trim_barcodes, no_trim_primers, no_trim_adapters, custom_kit,
                build_exit, thread_allocations, pipeline_desc, hts_writer, aligner,
                current_sink_node>>

pipe_vars == <<pipe_pc, source_left, queue, writing, written, dropped, node_stats,
               terminate_calls, pending_at_terminate, terminate_stats>>

output_vars == <<emit_fastq, emit_sam, has_mods_variant, mod_bases, mod_bases_models,
                 stdout_fd, output_mode>>

graph_vars == <<build_vars, pipe_vars, output_vars>>

vars == <<realign_vars, map_vars, run_vars, graph_vars>>

\* ------------------------------------------------- compute_overlap (minimap2)

\* The OverlapResult values compute_overlap(query_seq, target_seq) can return,
\* as positional tuples {flag, target_start, target_end, query_start, query_end}.
\* The index is built over query_seq and target_seq is mapped onto it, so the
\* fields named target_* (minimap2's rs, re) are coordinates in query_seq and
\* the fields named query_* (qs, qe) are coordinates in target_seq.  A hit is a
\* non-empty window inside each sequence; no hit leaves the initial
\* {false, 0, 0, 0, 0}.
compute_overlap(query_seq, target_seq) ==
    LET hits == {<<TRUE, rs, re, qs, qe>> :
                    rs \in 0..(Len(query_seq) - 1), re \in 1..Len(query_seq),
                    qs \in 0..(Len(target_seq) - 1), qe \in 1..Len(target_seq)}
    IN {<<FALSE, 0, 0, 0, 0>>} \cup {w \in hits : w[2] < w[3] /\ w[4] < w[5]}

\* ------------------------------------------------------- edlibAlign (edlib)

\* Every global alignment path of a (edlib's query) against b (edlib's target):
\* 0 match, 3 mismatch, 1 a base of a only, 2 a base of b only.
RECURSIVE AllPaths(_, _)
AllPaths(a, b) ==
    IF a = <<>> /\ b = <<>> THEN {<<>>}
    ELSE (IF a # <<>> /\ b # <<>>
            THEN {<<IF a[1] = b[1] THEN 0 ELSE 3>> \o p : p \in AllPaths(Tail(a), Tail(b))}
            ELSE {})
         \cup (IF a # <<>> THEN {<<1>> \o p : p \in AllPaths(Tail(a), b)} ELSE {})
         \cup (IF b # <<>> THEN {<<2>> \o p : p \in AllPaths(a, Tail(b))} ELSE {})

EditCost(p) == Len(p) - CountOp(p, 0)

\* The paths edlibAlign can return in mode NW with task PATH: the global paths
\* of least edit cost.  With an empty sequence edlib returns early and leaves
\* startLocations null (the empty set here).
edlibAlign(a, b) ==
    IF a = <<>> \/ b = <<>> THEN {}
    ELSE LET all == AllPaths(a, b)
         IN {p \in all : \A q \in all : EditCost(p) <= EditCost(q)}

\* ----------------------------------------------------------- std::string

\* s.substr(pos, count) for pos <= size(); count arrives as size_t, so a
\* negative int difference is a huge count and selects the rest of the string.
substr(s, pos, count) ==
    LET n == IF count < 0 THEN Len(s) - pos ELSE Min2(count, Len(s) - pos)
    IN SubSeq(s, pos + 1, pos + n)

\* s[k] for k <= size(): the base, or the terminator at k = size().
CharAt(s, k) == IF k < Len(s) THEN s[k + 1] ELSE NUL

\* ------------------------------------------------------------ realign_moves

failed_realignment == <<-1, -1, <<>>>>

\* The locals of realign_moves as the call begins.
Init_locals ==
    /\ is_overlap = FALSE
    /\ query_start = 0 /\ query_end = 0 /\ target_start = 0 /\ target_end = 0
    /\ target_sequence_component = <<>> /\ query_sequence_component = <<>>
    /\ alignment = <<>> /\ alignment_size = 0 /\ loop_i = 0
    /\ new_moves = <<>> /\ new_move_cursor = 0 /\ old_move_cursor = 0
    /\ old_moves_offset = 0 /\ moves_found = 0
    /\ outcome = "running" /\ ret = <<0, 0, <<>>>>
    /\ overlap_called = FALSE /\ edlib_called = FALSE
    /\ overlap_result = <<FALSE, 0, 0, 0, 0>>
    /\ seq_oob = FALSE /\ oob = FALSE

\* realign_moves has been called with some two sequences and some move table.
Init_realign ==
    \* The code only compares bases for equality, so the two base names are
    \* interchangeable: the first base of the original sequence is fixed.
    /\ query_sequence \in {s \in SeqsUpTo(Bases, MaxQueryLen) : s = <<>> \/ s[1] = "A"}
    /\ target_sequence \in SeqsUpTo(Bases, MaxTargetLen)
    /\ moves \in SeqsUpTo(Flags, MaxMoves)
    /\ pc = "call"
    /\ Init_locals

\* No call of realign_moves is under way.
Idle_realign ==
    /\ query_sequence = <<>> /\ target_sequence = <<>>
    /\ pc = "idle"
    /\ Init_locals

\* The call ends: by returning r, by an exception leaving the function, or by a trap.
Finish(how, r) ==
    /\ pc' = "done"
    /\ outcome' = how
    /\ ret' = r

\* CallOverlap without the early return of lines 244-246.
CallOverlap_NoEarlyReturn ==
    /\ pc = "call"
    /\ overlap_called' = TRUE
    /\ \E w \in compute_overlap(query_sequence, target_sequence) :
        /\ overlap_result' = w
        /\ is_overlap' = w[1]
        /\ query_end' = w[3]
        /\ target_end' = w[5]
        /\ query_start' = w[2] + 1 /\ target_start' = w[4] + 1
        /\ pc' = "refine"
        /\ UNCHANGED <<outcome, ret>>
    /\ UNCHANGED <<query_sequence, target_sequence, moves,
                   target_sequence_component, query_sequence_component,
                   alignment, alignment_size, loop_i, new_moves, new_move_cursor,
                   old_move_cursor, old_moves_offset, moves_found, edlib_called,
                   seq_oob, oob, map_vars,
                   run_vars, graph_vars>>

\* Lines 238-249: the overlap is computed; without a hit the sentinel is
\* returned, with one both starts are advanced by one.
CallOverlap ==
    /\ pc = "call"
    /\ overlap_called' = TRUE
    /\ \E w \in compute_overlap(query_sequence, target_sequence) :
        /\ overlap_result' = w
        /\ is_overlap' = w[1]
        /\ query_end' = w[3]
        /\ target_end' = w[5]
        /\ IF ~w[1]
             THEN /\ query_start' = w[2] /\ target_start' = w[4]
                  /\ Finish("returned", failed_realignment)
             ELSE /\ query_start' = w[2] + 1 /\ target_start' = w[4] + 1
                  /\ pc' = "refine"
                  /\ UNCHANGED <<outcome, ret>>
    /\ UNCHANGED <<query_sequence, target_sequence, moves,
                   target_sequence_component, query_sequence_component,
                   alignment, alignment_size, loop_i, new_moves, new_move_cursor,
                   old_move_cursor, old_moves_offset, moves_found, edlib_called,
                   seq_oob, oob, map_vars,
                   run_vars, graph_vars>>

RefineInRange == query_start <= Len(query_sequence) /\ target_start <= Len(target_sequence)

refine_frame == <<query_sequence, target_sequence, moves, is_overlap, query_end, target_end,
                  target_sequence_component, query_sequence_component,
                  alignment, alignment_size, loop_i, new_moves, new_move_cursor,
                  old_move_cursor, old_moves_offset, moves_found,
                  overlap_called, edlib_called, overlap_result, oob, map_vars,
                   run_vars, graph_vars>>

\* Line 250, both reads inside their strings and the bases differ: lines 251-252.
RefineAdvance ==
    /\ pc = "refine" /\ RefineInRange
    /\ CharAt(query_sequence, query_start) # CharAt(target_sequence, target_start)
    /\ query_start' = query_start + 1
    /\ target_start' = target_start + 1
    /\ UNCHANGED <<pc, outcome, ret, seq_oob>>
    /\ UNCHANGED refine_frame

\* Line 250, both reads inside their strings and the bases agree: the loop ends.
RefineStop ==
    /\ pc = "refine" /\ RefineInRange
    /\ CharAt(query_sequence, query_start) = CharAt(target_sequence, target_start)
    /\ pc' = "substr"
    /\ UNCHANGED <<query_start, target_start, outcome, ret, seq_oob>>
    /\ UNCHANGED refine_frame

\* Line 250 with an index past size(): the read is undefined.  The bytes found
\* may differ (the loop goes on), agree (it ends), or the read may trap; past
\* the slack it traps.
RefineOutOfRange ==
    /\ pc = "refine" /\ ~RefineInRange
    /\ seq_oob' = TRUE
    /\ \/ /\ query_start <= Len(query_sequence) + 1 + OobSlack
          /\ target_start <= Len(target_sequence) + 1 + OobSlack
          /\ query_start' = query_start + 1
          /\ target_start' = target_start + 1
          /\ UNCHANGED <<pc, outcome, ret>>
       \/ /\ query_start <= Len(query_sequence) + 1 + OobSlack
          /\ target_start <= Len(target_sequence) + 1 + OobSlack
          /\ pc' = "substr"
          /\ UNCHANGED <<query_start, target_start, outcome, ret>>
       \/ /\ Finish("trapped", ret)
          /\ UNCHANGED <<query_start, target_start>>
    /\ UNCHANGED refine_frame


\* Lines 258-260 when a refined start is past size(): substr throws
\* std::out_of_range, which leaves realign_moves.
SubstrThrows ==
    /\ pc = "substr"
    /\ target_start > Len(target_sequence) \/ query_start > Len(query_sequence)
    /\ Finish("threw", ret)
    /\ UNCHANGED <<query_start, target_start, seq_oob>>
    /\ UNCHANGED refine_frame

\* edlib's startLocations[0] and endLocations[0] in mode NW, for the target
\* sequence b handed to edlibAlign (its fourth argument).
startLocation(b) == 0
endLocation(b) == Len(b) - 1

\* Lines 258-280: the two windows are cut out and aligned; the aligner's
\* failure returns the sentinel, a path starts the walk with fresh cursors.
CallEdlib ==
    /\ pc = "substr"
    /\ target_start <= Len(target_sequence) /\ query_start <= Len(query_sequence)
    /\ LET tc == substr(target_sequence, target_start, target_end - target_start)
           qc == substr(query_sequence, query_start, query_end - query_start)
       IN /\ target_sequence_component' = tc
          /\ query_sequence_component' = qc
          /\ edlib_called' = TRUE
          /\ IF edlibAlign(tc, qc) = {}
               THEN /\ Finish("returned", failed_realignment)
                    /\ UNCHANGED alignment
               ELSE /\ alignment' \in edlibAlign(tc, qc)
                    /\ pc' = "scan"
                    /\ UNCHANGED <<outcome, ret>>
    /\ new_move_cursor' = 0 /\ old_move_cursor' = 0 /\ moves_found' = 0
    /\ UNCHANGED <<query_sequence, target_sequence, moves, is_overlap,
                   query_start, query_end, target_start, target_end,
                   alignment_size, loop_i, new_moves, old_moves_offset,
                   overlap_called, overlap_result, seq_oob, oob, map_vars,
                   run_vars, graph_vars>>

walk_frame == <<query_sequence, target_sequence, moves, is_overlap,
                query_start, query_end, target_start, target_end,
                target_sequence_component, query_sequence_component, alignment,
                overlap_called, edlib_called, overlap_result, seq_oob, map_vars,
                   run_vars, graph_vars>>

\* moves[k] is inside the table.
MoveInRange(k) == 0 <= k /\ k < Len(moves)
\* An out-of-range read at k that is still taken to return a byte.
MoveInSlack(k) == ~MoveInRange(k) /\ k <= Len(moves) + OobSlack

ScanCondition == moves_found < Len(moves) /\ moves_found < query_start

\* Lines 282-285, the read inside the table.
ScanStep ==
    /\ pc = "scan" /\ ScanCondition /\ MoveInRange(old_move_cursor)
    /\ moves_found' = moves_found + moves[old_move_cursor + 1]
    /\ old_move_cursor' = old_move_cursor + 1
    /\ UNCHANGED <<pc, alignment_size, loop_i, new_moves, new_move_cursor,
                   old_moves_offset, outcome, ret, oob>>
    /\ UNCHANGED walk_frame

\* Lines 282-285, the read past the table: any byte.
ScanStepOutOfRange ==
    /\ pc = "scan" /\ ScanCondition /\ MoveInSlack(old_move_cursor)
    /\ oob' = TRUE
    /\ \E b \in GarbageBytes : moves_found' = moves_found + b
    /\ old_move_cursor' = old_move_cursor + 1
    /\ UNCHANGED <<pc, alignment_size, loop_i, new_moves, new_move_cursor,
                   old_moves_offset, outcome, ret>>
    /\ UNCHANGED walk_frame

\* A read of the move table outside the table that traps (any of the loops).
MoveReadTraps ==
    /\ \/ pc = "scan" /\ ScanCondition
       \/ pc \in {"skip_match", "skip_ins"}
    /\ ~MoveInRange(old_move_cursor)
    /\ oob' = TRUE
    /\ Finish("trapped", ret)
    /\ UNCHANGED <<alignment_size, loop_i, new_moves, new_move_cursor,
                   old_move_cursor, old_moves_offset, moves_found>>
    /\ UNCHANGED walk_frame

\* Lines 286-290: the scan is over; the cursor steps back, the offset is
\* taken, and the number of operations to walk is computed.
ScanEnd ==
    /\ pc = "scan" /\ ~ScanCondition
    /\ old_move_cursor' = old_move_cursor - 1
    /\ old_moves_offset' = old_move_cursor - 1
    /\ alignment_size' = endLocation(query_sequence_component)
                         - startLocation(query_sequence_component)
    /\ loop_i' = 0
    /\ new_moves' = <<>>
    /\ pc' = "walk"
    /\ UNCHANGED <<new_move_cursor, moves_found, outcome, ret, oob>>
    /\ UNCHANGED walk_frame

\* Line 293 with i at alignment_size, then lines 329-331.
WalkReturn ==
    /\ pc = "walk" /\ loop_i >= alignment_size
    /\ Finish("returned", <<old_moves_offset, target_start - 1, new_moves>>)
    /\ UNCHANGED <<alignment_size, loop_i, new_moves, new_move_cursor,
                   old_move_cursor, old_moves_offset, moves_found, oob>>
    /\ UNCHANGED walk_frame

alignment_entry == alignment[loop_i + 1]

\* Lines 295-300: match or mismatch.
WalkMatch ==
    /\ pc = "walk" /\ loop_i < alignment_size
    /\ alignment_entry = 0 \/ alignment_entry = 3
    /\ new_moves' = Append(new_moves, 1)
    /\ new_move_cursor' = new_move_cursor + 1
    /\ old_move_cursor' = old_move_cursor + 1
    /\ pc' = "skip_match"
    /\ UNCHANGED <<alignment_size, loop_i, old_moves_offset, moves_found, outcome, ret, oob>>
    /\ UNCHANGED walk_frame

\* Lines 312-315: insertion to target.
WalkInsertionToTarget ==
    /\ pc = "walk" /\ loop_i < alignment_size
    /\ alignment_entry = 1
    /\ new_moves' = Append(new_moves, 1)
    /\ new_move_cursor' = new_move_cursor + 1
    /\ loop_i' = loop_i + 1
    /\ UNCHANGED <<pc, alignment_size, old_move_cursor, old_moves_offset, moves_found,
                   outcome, ret, oob>>
    /\ UNCHANGED walk_frame

\* WalkInsertionToQuery without the push of line 318.
WalkInsertionToQuery_NoPush ==
    /\ pc = "walk" /\ loop_i < alignment_size
    /\ alignment_entry = 2
    /\ new_move_cursor' = new_move_cursor + 1
    /\ old_move_cursor' = old_move_cursor + 1
    /\ pc' = "skip_ins"
    /\ UNCHANGED <<new_moves, alignment_size, loop_i, old_moves_offset, moves_found,
                   outcome, ret, oob>>
    /\ UNCHANGED walk_frame

\* Lines 316-320: insertion to query.
WalkInsertionToQuery ==
    /\ pc = "walk" /\ loop_i < alignment_size
    /\ alignment_entry = 2
    /\ new_moves' = Append(new_moves, 0)
    /\ new_move_cursor' = new_move_cursor + 1
    /\ old_move_cursor' = old_move_cursor + 1
    /\ pc' = "skip_ins"
    /\ UNCHANGED <<alignment_size, loop_i, old_moves_offset, moves_found, outcome, ret, oob>>
    /\ UNCHANGED walk_frame

\* Lines 303-309: the body of the while loop after a match, run when the
\* entry read at the old cursor is 0.
SkipMatchBody ==
    /\ IF old_move_cursor < new_move_cursor + old_moves_offset
         THEN /\ old_move_cursor' = old_move_cursor + 1
              /\ UNCHANGED <<new_moves, new_move_cursor>>
         ELSE /\ new_moves' = Append(new_moves, 0)
              /\ new_move_cursor' = new_move_cursor + 1
              /\ old_move_cursor' = old_move_cursor + 1
    /\ UNCHANGED <<pc, loop_i>>

\* Lines 322-324: the body of the while loop after an insertion to query.
SkipInsBody ==
    /\ new_moves' = Append(new_moves, 0)
    /\ old_move_cursor' = old_move_cursor + 1
    /\ new_move_cursor' = new_move_cursor + 1
    /\ UNCHANGED <<pc, loop_i>>

\* The while loop's condition is false: on to the next operation (line 293).
SkipExit ==
    /\ loop_i' = loop_i + 1
    /\ pc' = "walk"
    /\ UNCHANGED <<new_moves, new_move_cursor, old_move_cursor>>

\* Line 302, the read inside the table.
SkipMatch ==
    /\ pc = "skip_match" /\ MoveInRange(old_move_cursor)
    /\ IF moves[old_move_cursor + 1] = 0 THEN SkipMatchBody ELSE SkipExit
    /\ UNCHANGED <<alignment_size, old_moves_offset, moves_found, outcome, ret, oob>>
    /\ UNCHANGED walk_frame

\* Line 302, the read past the table: any byte.
SkipMatchOutOfRange ==
    /\ pc = "skip_match" /\ MoveInSlack(old_move_cursor)
    /\ oob' = TRUE
    /\ \E b \in GarbageBytes : IF b = 0 THEN SkipMatchBody ELSE SkipExit
    /\ UNCHANGED <<alignment_size, old_moves_offset, moves_found, outcome, ret>>
    /\ UNCHANGED walk_frame

\* Line 321, the read inside the table.
SkipIns ==
    /\ pc = "skip_ins" /\ MoveInRange(old_move_cursor)
    /\ IF moves[old_move_cursor + 1] = 0 THEN SkipInsBody ELSE SkipExit
    /\ UNCHANGED <<alignment_size, old_moves_offset, moves_found, outcome, ret, oob>>
    /\ UNCHANGED walk_frame

\* Line 321, the read past the table: any byte.
SkipInsOutOfRange ==
    /\ pc = "skip_ins" /\ MoveInSlack(old_move_cursor)
    /\ oob' = TRUE
    /\ \E b \in GarbageBytes : IF b = 0 THEN SkipInsBody ELSE SkipExit
    /\ UNCHANGED <<alignment_size, old_moves_offset, moves_found, outcome, ret>>
    /\ UNCHANGED walk_frame

Next_realign ==
    \/ CallOverlap
    \/ RefineAdvance
    \/ RefineStop
    \/ RefineOutOfRange
    \/ SubstrThrows
    \/ CallEdlib
    \/ ScanStep
    \/ ScanStepOutOfRange
    \/ ScanEnd
    \/ MoveReadTraps
    \/ WalkReturn
    \/ WalkMatch
    \/ WalkInsertionToTarget
    \/ WalkInsertionToQuery
    \/ SkipMatch
    \/ SkipMatchOutOfRange
    \/ SkipIns
    \/ SkipInsOutOfRange


\* ---------------------------------------------- moves_to_map, move_cum_sums
\* The move table of the unit tests.
TestMoveTable == <<1, 1, 0, 0, 0, 1, 1, 1, 0, 0, 1, 0, 1>>

\* The for loop of moves_to_map from index i on; acc is seq_to_sig_map so far.
RECURSIVE moves_to_map_loop(_, _, _, _)
moves_to_map_loop(m, stride, i, acc) ==
    IF i >= Len(m) THEN acc
    ELSE moves_to_map_loop(m, stride, i + 1,
                           IF m[i + 1] = 1 THEN Append(acc, i * stride) ELSE acc)

\* moves_to_map without the push_back of signal_len.
moves_to_map_NoSignalLen(m, stride, len) ==
    moves_to_map_loop(m, stride, 0, <<>>)

\* moves_to_map: the offset of every 1 flag, then signal_len.
moves_to_map(m, stride, len) ==
    Append(moves_to_map_loop(m, stride, 0, <<>>), len)

\* The for loop of move_cum_sums from index i on; a is ans so far.
RECURSIVE move_cum_sums_loop(_, _, _)
move_cum_sums_loop(m, i, a) ==
    IF i >= Len(m) THEN a
    ELSE move_cum_sums_loop(m, i + 1, [a EXCEPT ![i + 1] = a[i] + m[i + 1]])

\* move_cum_sums: the running count of 1 flags.
move_cum_sums(m) ==
    LET zeros == [k \in 1..Len(m) |-> 0]
        first == IF m # <<>> THEN [zeros EXCEPT ![1] = m[1]] ELSE zeros
    IN  move_cum_sums_loop(m, 1, first)

\* The for loop of trim_move_table from index i on, for the bases [a, b):
\* pos is the number of 1 flags met, ts the entries left out before base a,
\* acc the entries kept so far.
RECURSIVE trim_move_table_loop(_, _, _, _, _, _, _)
trim_move_table_loop(m, a, b, i, pos, ts, acc) ==
    IF i >= Len(m) THEN <<ts, acc>>
    ELSE LET p == pos + m[i + 1]
         IN  IF p > b THEN <<ts, acc>>
             ELSE IF p <= a
                  THEN trim_move_table_loop(m, a, b, i + 1, p, ts + 1, acc)
                  ELSE trim_move_table_loop(m, a, b, i + 1, p, ts, Append(acc, m[i + 1]))

\* trim_move_table without the end of the interval.
trim_move_table_NoEnd(m, a, b) ==
    trim_move_table_loop(m, a, Len(m) + 1, 0, 0, 0, <<>>)

\* utils::trim_move_table: the number of entries before base a, and the
\* entries of the bases [a, b).
trim_move_table(m, a, b) ==
    trim_move_table_loop(m, a, b, 0, 0, 0, <<>>)

\* trim_move_table has not returned anything yet.
NotTrimmed == <<-1, <<>>>>

\* Neither coordinate map has been called.
Idle_map ==
    /\ block_stride = 1 /\ signal_len = 0
    /\ map_pc = "idle"
    /\ seq_to_sig_map = <<>> /\ ans = <<>>
    /\ trim_interval = <<0, 0>> /\ trimmed = NotTrimmed

\* Some move table, some stride and a signal at least as long as the table covers.
Init_map ==
    /\ moves \in SeqsUpTo(Flags, MaxMapMoves) \cup {TestMoveTable}
    /\ block_stride \in 1..MaxStride
    /\ signal_len \in {Len(moves) * block_stride, Len(moves) * block_stride + 1}
    /\ map_pc = "call"
    /\ seq_to_sig_map = <<>> /\ ans = <<>>
    /\ trim_interval \in {<<a, b>> \in (0..Len(moves)) \X (0..Len(moves)) : a <= b}
    /\ trimmed = NotTrimmed

\* A caller applies moves_to_map to the table.
CallMovesToMap ==
    /\ map_pc \in {"call", "summed"}
    /\ seq_to_sig_map' = moves_to_map(moves, block_stride, signal_len)
    /\ map_pc' = IF map_pc = "call" THEN "mapped" ELSE "done"
    /\ UNCHANGED <<moves, block_stride, signal_len, ans, trim_interval, trimmed,
                   realign_locals,
                   run_vars, graph_vars>>

\* A caller applies move_cum_sums to the table.
CallMoveCumSums ==
    /\ map_pc \in {"call", "mapped"}
    /\ ans' = move_cum_sums(moves)
    /\ map_pc' = IF map_pc = "call" THEN "summed" ELSE "done"
    /\ UNCHANGED <<moves, block_stride, signal_len, seq_to_sig_map, trim_interval,
                   trimmed, realign_locals,
                   run_vars, graph_vars>>

\* A caller applies trim_move_table to the table and the interval.
CallTrimMoveTable ==
    /\ trimmed = NotTrimmed
    /\ map_pc # "idle"
    /\ trimmed' = trim_move_table(moves, trim_interval[1], trim_interval[2])
    /\ UNCHANGED <<moves, block_stride, signal_len, map_pc, seq_to_sig_map, ans,
                   trim_interval, realign_locals, run_vars, graph_vars>>

Next_map ==
    \/ CallMovesToMap
    \/ CallMoveCumSums
    \/ CallTrimMoveTable

\* ------------------------------------------------- basecaller and setup
\* The reads the data path can hold, by identifier.
Reads == 1..NumReads

\* A model argument is a path to a model directory or a model complex.
PathArg(d, n) == [kind |-> "path", dir |-> d, name |-> n, variant |-> "NONE", version |-> "NONE"]

ComplexArg(v, ver) == [kind |-> "complex", dir |-> "", name |-> "", variant |-> v, version |-> ver]

NoArg == [kind |-> "none", dir |-> "", name |-> "", variant |-> "NONE", version |-> "NONE"]

ModelArgs == {PathArg("d1", "A"), PathArg("d1", "B"),
              ComplexArg("hac", "NONE"), ComplexArg("sup", "NONE")}

\* ModelComplexParser::parse / cli::parse_model_argument: a path selects no
\* variant, a complex selects a variant and a version.
parse_model_argument(arg) == [raw |-> arg, model |-> <<arg.variant, arg.version>>]

\* ModelSelection::is_path.
is_path(selection) == selection.model[1] = "NONE"

\* Equality of two ModelSelection values.
same_selection(a, b) == a.model = b.model

\* models::extract_model_name_from_path: the last component of the path.
extract_model_name_from_path(path) == path.name

\* ModelFinder::fetch_simplex_model: the model a complex resolves to for the
\* data at hand; every version of a variant resolves to one model here.
fetch_simplex_model(selection) ==
    PathArg("tmp", IF selection.model[1] = "hac" THEN "A" ELSE "B")

\* The model a run with this argument basecalls with, by name.
ModelOf(arg) ==
    IF is_path(parse_model_argument(arg))
    THEN extract_model_name_from_path(arg)
    ELSE extract_model_name_from_path(fetch_simplex_model(parse_model_argument(arg)))

\* No prior output.
NoArtifact == [present |-> FALSE, cl |-> NoArg, records |-> <<>>, parent_complete |-> FALSE]

\* One record of an output file: the read it holds, and whether all of its
\* bytes are in the file.
WholeRecord(r) == [id |-> r, complete |-> TRUE]

CutRecord(r) == [id |-> r, complete |-> FALSE]

\* The identifiers of a sequence of records, as a set.
Ids(records) == {records[k].id : k \in 1..Len(records)}

IsComplete(record) == record.complete

\* ResumeLoaderNode::copy_completed_reads: the records of the resume file
\* that are whole, in file order.
copy_completed_reads(file) == SelectSeq(file.records, IsComplete)

\* ResumeLoaderNode::get_processed_read_ids: the identifiers of those records.
get_processed_read_ids(file) == Ids(copy_completed_reads(file))

\* The resume validation with the comparison of model complexes left out.
resume_model_mismatch_PathOnly(resume_model_arg, name, selection) ==
    LET resume_selection == parse_model_argument(resume_model_arg)
    IN  /\ is_path(resume_selection)
        /\ name # extract_model_name_from_path(resume_model_arg)

\* setup, the two throwing branches of the resume validation.
resume_model_mismatch(resume_model_arg, name, selection) ==
    LET resume_selection == parse_model_argument(resume_model_arg)
    IN  IF is_path(resume_selection)
        THEN name # extract_model_name_from_path(resume_model_arg)
        ELSE ~same_selection(resume_selection, selection)

\* The locals of basecaller before a run.
Init_run_locals ==
    /\ model_arg = NoArg /\ resume_from_file = FALSE
    /\ model_selection = parse_model_argument(NoArg)
    /\ model_path = NoArg /\ model_name = ""
    /\ temp_download_paths = FALSE /\ temp_cleaned = FALSE
    /\ pipeline = "none" /\ header_written = FALSE /\ hdr_cl = NoArg
    /\ reads_already_processed = {} /\ loader_skip = {}
    /\ fed = {} /\ in_flight = {} /\ out = <<>>
    /\ stats_sampler = "none" /\ final_stats = -1
    /\ exit_status = -1 /\ ended_by = "none"
    /\ validations = 0 /\ rejected = FALSE
    /\ copy_called = FALSE /\ replayed = <<>> /\ load_called = FALSE
    /\ hdr = {}
    /\ progress = 0 /\ summarized = FALSE
    /\ runners = FALSE

\* setup: the aligner is enabled when a reference is given.
enable_aligner == ref

\* No run of basecaller is modelled.
Idle_run_but_ref ==
    /\ data_reads = {} /\ artifact = NoArtifact
    /\ run_pc = "off" /\ run_no = 0
    /\ Init_run_locals

Idle_run == Idle_run_but_ref /\ ref = FALSE

\* A data path holding some reads, no prior output, no run yet.
Init_run ==
    /\ data_reads \in {1..n : n \in 0..NumReads}
    /\ artifact = NoArtifact
    /\ run_pc = "idle" /\ run_no = 0
    /\ ref = FALSE
    /\ Init_run_locals

not_run == <<realign_vars, map_vars, graph_vars>>

\* basecaller: the command line is parsed; --resume-from names the prior output.
StartRun ==
    /\ run_pc = "idle"
    /\ run_no < MaxRuns
    /\ \E a \in ModelArgs, r \in BOOLEAN :
          /\ r => artifact.present
          /\ model_arg' = a
          /\ resume_from_file' = r
          /\ model_selection' = parse_model_argument(a)
    /\ ref' \in BOOLEAN
    /\ run_no' = run_no + 1
    /\ run_pc' = "fetch"
    /\ UNCHANGED <<data_reads, artifact, model_path, model_name,
                   temp_download_paths, temp_cleaned, pipeline, header_written,
                   hdr_cl, reads_already_processed, loader_skip, fed, in_flight,
                   out, stats_sampler, final_stats, exit_status, ended_by,
                   validations, rejected, copy_called, replayed, load_called, hdr,
                   progress, summarized, runners, not_run>>

\* basecaller: the model argument is a path and is used as it stands.
UseModelPath ==
    /\ run_pc = "fetch"
    /\ is_path(model_selection)
    /\ model_path' = model_arg
    /\ run_pc' = "setup"
    /\ UNCHANGED <<data_reads, artifact, run_no, model_arg, resume_from_file,
                   model_selection, model_name, temp_download_paths, temp_cleaned,
                   pipeline, header_written, hdr_cl, reads_already_processed,
                   loader_skip, fed, in_flight, out, stats_sampler, final_stats,
                   exit_status, ended_by, validations, rejected, copy_called,
                   replayed, load_called, ref, hdr, progress, summarized, runners,
                   not_run>>

\* basecaller: the model finder fetches the model of a complex; the models it
\* had to download are remembered as temporary.
FetchModel ==
    /\ run_pc = "fetch"
    /\ ~is_path(model_selection)
    /\ model_path' = fetch_simplex_model(model_selection)
    /\ temp_download_paths' \in BOOLEAN
    /\ run_pc' = "setup"
    /\ UNCHANGED <<data_reads, artifact, run_no, model_arg, resume_from_file,
                   model_selection, model_name, temp_cleaned, pipeline,
                   header_written, hdr_cl, reads_already_processed, loader_skip,
                   fed, in_flight, out, stats_sampler, final_stats, exit_status,
                   ended_by, validations, rejected, copy_called, replayed,
                   load_called, ref, hdr, progress, summarized, runners, not_run>>

\* basecaller: the model finder throws; the downloads are cleaned and the
\* process exits.
FetchModelFails ==
    /\ run_pc = "fetch"
    /\ ~is_path(model_selection)
    /\ temp_cleaned' = TRUE
    /\ exit_status' = 1
    /\ ended_by' = "exit"
    /\ run_pc' = "ended"
    /\ UNCHANGED <<data_reads, artifact, run_no, model_arg, resume_from_file,
                   model_selection, model_path, model_name, temp_download_paths,
                   pipeline, header_written, hdr_cl, reads_already_processed,
                   loader_skip, fed, in_flight, out, stats_sampler, final_stats,
                   validations, rejected, copy_called, replayed, load_called, ref,
                   hdr, progress, summarized, runners, not_run>>

\* setup: the model configuration is loaded and the model named.
SetupBegin ==
    /\ run_pc = "setup"
    /\ model_name' = extract_model_name_from_path(model_path)
    /\ run_pc' = "check_data"
    /\ UNCHANGED <<data_reads, artifact, run_no, model_arg, resume_from_file,
                   model_selection, model_path, temp_download_paths, temp_cleaned,
                   pipeline, header_written, hdr_cl, reads_already_processed,
                   loader_skip, fed, in_flight, out, stats_sampler, final_stats,
                   exit_status, ended_by, validations, rejected, copy_called,
                   replayed, load_called, ref, hdr, progress, summarized, runners,
                   not_run>>

\* setup: no read data is present in the data path; setup throws.
SetupNoData ==
    /\ run_pc = "check_data"
    /\ data_reads = {}
    /\ run_pc' = "catch"
    /\ UNCHANGED <<data_reads, artifact, run_no, model_arg, resume_from_file,
                   model_selection, model_path, model_name, temp_download_paths,
                   temp_cleaned, pipeline, header_written, hdr_cl,
                   reads_already_processed, loader_skip, fed, in_flight, out,
                   stats_sampler, final_stats, exit_status, ended_by, validations,
                   rejected, copy_called, replayed, load_called, ref, hdr,
                   progress, summarized, runners, not_run>>

\* setup: the data files hold no read; the process exits.
SetupNoReads ==
    /\ run_pc = "check_data"
    /\ data_reads = {}
    /\ exit_status' = 1
    /\ ended_by' = "exit"
    /\ run_pc' = "ended"
    /\ UNCHANGED <<data_reads, artifact, run_no, model_arg, resume_from_file,
                   model_selection, model_path, model_name, temp_download_paths,
                   temp_cleaned, pipeline, header_written, hdr_cl,
                   reads_already_processed, loader_skip, fed, in_flight, out,
                   stats_sampler, final_stats, validations, rejected, copy_called,
                   replayed, load_called, ref, hdr, progress, summarized, runners,
                   not_run>>

\* The same without the check of the data.
SetupCountReads_Unchecked ==
    /\ run_pc = "check_data"
    /\ run_pc' = "build"
    /\ UNCHANGED <<data_reads, artifact, run_no, model_arg, resume_from_file,
                   model_selection, model_path, model_name, temp_download_paths,
                   temp_cleaned, pipeline, header_written, hdr_cl,
                   reads_already_processed, loader_skip, fed, in_flight, out,
                   stats_sampler, final_stats, exit_status, ended_by, validations,
                   rejected, copy_called, replayed, load_called, ref, hdr,
                   progress, summarized, runners, not_run>>

\* setup: the data path holds reads.
SetupCountReads ==
    /\ run_pc = "check_data"
    /\ data_reads # {}
    /\ run_pc' = "build"
    /\ UNCHANGED <<data_reads, artifact, run_no, model_arg, resume_from_file,
                   model_selection, model_path, model_name, temp_download_paths,
                   temp_cleaned, pipeline, header_written, hdr_cl,
                   reads_already_processed, loader_skip, fed, in_flight, out,
                   stats_sampler, final_stats, exit_status, ended_by, validations,
                   rejected, copy_called, replayed, load_called, ref, hdr,
                   progress, summarized, runners, not_run>>

\* setup: the runners and the pipeline descriptor are built and the Pipeline
\* is created from the descriptor.
SetupCreatePipeline ==
    /\ run_pc = "build"
    /\ runners' = TRUE
    /\ pipeline' = "created"
    /\ run_pc' = "header"
    /\ UNCHANGED <<data_reads, artifact, run_no, model_arg, resume_from_file,
                   model_selection, model_path, model_name, temp_download_paths,
                   temp_cleaned, header_written, hdr_cl, reads_already_processed,
                   loader_skip, fed, in_flight, out, stats_sampler, final_stats,
                   exit_status, ended_by, validations, rejected, copy_called,
                   replayed, load_called, ref, hdr, progress, summarized, not_run>>

\* setup: Pipeline::create returns nullptr; the process exits.
SetupCreatePipelineFails ==
    /\ run_pc = "build"
    /\ runners' = TRUE
    /\ exit_status' = 1
    /\ ended_by' = "exit"
    /\ run_pc' = "ended"
    /\ UNCHANGED <<data_reads, artifact, run_no, model_arg, resume_from_file,
                   model_selection, model_path, model_name, temp_download_paths,
                   temp_cleaned, pipeline, header_written, hdr_cl,
                   reads_already_processed, loader_skip, fed, in_flight, out,
                   stats_sampler, final_stats, validations, rejected, copy_called,
                   replayed, load_called, ref, hdr, progress, summarized, not_run>>

\* SetupWriteHeader without the call of set_and_write_header.
SetupWriteHeader_NoHeader ==
    /\ run_pc = "header"
    /\ run_pc' = "resume"
    /\ UNCHANGED <<data_reads, artifact, run_no, model_arg, resume_from_file,
                   model_selection, model_path, model_name, temp_download_paths,
                   temp_cleaned, pipeline, header_written, hdr_cl,
                   reads_already_processed, loader_skip, fed, in_flight, out,
                   stats_sampler, final_stats, exit_status, ended_by, validations,
                   rejected, copy_called, replayed, load_called, ref, hdr,
                   progress, summarized, runners, not_run>>

\* setup: the writer node writes the header: the program line, which records
\* the command line, the read groups and, with the aligner enabled, the
\* sequence records of the aligner.
SetupWriteHeader ==
    /\ run_pc = "header"
    /\ header_written' = TRUE
    /\ hdr_cl' = model_arg
    /\ hdr' = {"PG", "RG"} \cup (IF enable_aligner THEN {"SQ"} ELSE {})
    /\ run_pc' = "resume"
    /\ UNCHANGED <<data_reads, artifact, run_no, model_arg, resume_from_file,
                   model_selection, model_path, model_name, temp_download_paths,
                   temp_cleaned, pipeline, reads_already_processed, loader_skip,
                   fed, in_flight, out, stats_sampler, final_stats, exit_status,
                   ended_by, validations, rejected, copy_called, replayed,
                   load_called, ref, progress, summarized, runners, not_run>>

\* setup: no resume file was given.
SetupNoResume ==
    /\ run_pc = "resume"
    /\ ~resume_from_file
    /\ run_pc' = "loader"
    /\ UNCHANGED <<data_reads, artifact, run_no, model_arg, resume_from_file,
                   model_selection, model_path, model_name, temp_download_paths,
                   temp_cleaned, pipeline, header_written, hdr_cl,
                   reads_already_processed, loader_skip, fed, in_flight, out,
                   stats_sampler, final_stats, exit_status, ended_by, validations,
                   rejected, copy_called, replayed, load_called, ref, hdr,
                   progress, summarized, runners, not_run>>

\* setup: the model argument recorded in the resume file is parsed and
\* compared with the model of this run; a mismatch throws.
SetupResumeValidate ==
    /\ run_pc = "resume"
    /\ resume_from_file
    /\ validations' = validations + 1
    /\ IF resume_model_mismatch(artifact.cl, model_name, model_selection)
       THEN rejected' = TRUE /\ run_pc' = "catch"
       ELSE rejected' = FALSE /\ run_pc' = "copy"
    /\ UNCHANGED <<data_reads, artifact, run_no, model_arg, resume_from_file,
                   model_selection, model_path, model_name, temp_download_paths,
                   temp_cleaned, pipeline, header_written, hdr_cl,
                   reads_already_processed, loader_skip, fed, in_flight, out,
                   stats_sampler, final_stats, exit_status, ended_by, copy_called,
                   replayed, load_called, ref, hdr, progress, summarized, runners,
                   not_run>>

\* SetupResumeCopy without the call of copy_completed_reads.
SetupResumeCopy_NoReplay ==
    /\ run_pc = "copy"
    /\ reads_already_processed' = get_processed_read_ids(artifact)
    /\ run_pc' = "loader"
    /\ UNCHANGED <<data_reads, artifact, run_no, model_arg, resume_from_file,
                   model_selection, model_path, model_name, temp_download_paths,
                   temp_cleaned, pipeline, header_written, hdr_cl, loader_skip,
                   fed, in_flight, out, stats_sampler, final_stats, exit_status,
                   ended_by, validations, rejected, copy_called, replayed,
                   load_called, ref, hdr, progress, summarized, runners, not_run>>

\* setup: the resume loader copies the completed reads of the resume file
\* into the writer and hands over their identifiers.
SetupResumeCopy ==
    /\ run_pc = "copy"
    /\ copy_called' = TRUE
    /\ replayed' = copy_completed_reads(artifact)
    /\ out' = out \o copy_completed_reads(artifact)
    /\ reads_already_processed' = get_processed_read_ids(artifact)
    /\ run_pc' = "loader"
    /\ UNCHANGED <<data_reads, artifact, run_no, model_arg, resume_from_file,
                   model_selection, model_path, model_name, temp_download_paths,
                   temp_cleaned, pipeline, header_written, hdr_cl, loader_skip,
                   fed, in_flight, stats_sampler, final_stats, exit_status,
                   ended_by, validations, rejected, load_called, ref, hdr,
                   progress, summarized, runners, not_run>>

\* SetupMakeLoader with a loader that is given no identifiers to skip.
SetupMakeLoader_SkipNothing ==
    /\ run_pc = "loader"
    /\ stats_sampler' = "running"
    /\ loader_skip' = {}
    /\ run_pc' = "load"
    /\ UNCHANGED <<data_reads, artifact, run_no, model_arg, resume_from_file,
                   model_selection, model_path, model_name, temp_download_paths,
                   temp_cleaned, pipeline, header_written, hdr_cl,
                   reads_already_processed, fed, in_flight, out, final_stats,
                   exit_status, ended_by, validations, rejected, copy_called,
                   replayed, load_called, ref, hdr, progress, summarized, runners,
                   not_run>>

\* setup: the stats sampler is started and the DataLoader is constructed
\* with reads_already_processed.
SetupMakeLoader ==
    /\ run_pc = "loader"
    /\ stats_sampler' = "running"
    /\ loader_skip' = reads_already_processed
    /\ run_pc' = "load"
    /\ UNCHANGED <<data_reads, artifact, run_no, model_arg, resume_from_file,
                   model_selection, model_path, model_name, temp_download_paths,
                   temp_cleaned, pipeline, header_written, hdr_cl,
                   reads_already_processed, fed, in_flight, out, final_stats,
                   exit_status, ended_by, validations, rejected, copy_called,
                   replayed, load_called, ref, hdr, progress, summarized, runners,
                   not_run>>

\* setup: load_reads is called.
LoadReadsCall ==
    /\ run_pc = "load"
    /\ load_called' = TRUE
    /\ run_pc' = "loading"
    /\ UNCHANGED <<data_reads, artifact, run_no, model_arg, resume_from_file,
                   model_selection, model_path, model_name, temp_download_paths,
                   temp_cleaned, pipeline, header_written, hdr_cl,
                   reads_already_processed, loader_skip, fed, in_flight, out,
                   stats_sampler, final_stats, exit_status, ended_by, validations,
                   rejected, copy_called, replayed, ref, hdr, progress, summarized,
                   runners, not_run>>

\* DataLoader::load_reads: the next read of the data path that is not to be
\* skipped is pushed into the pipeline.  The reads are taken in the order of
\* the data files, which is the order of the identifiers here; the pipeline
\* may still write them in any order.
LoadRead ==
    /\ run_pc = "loading"
    /\ \E r \in (data_reads \ loader_skip) \ fed :
          /\ \A q \in (data_reads \ loader_skip) \ fed : r <= q
          /\ fed' = fed \cup {r}
          /\ in_flight' = in_flight \cup {r}
    /\ UNCHANGED <<data_reads, artifact, run_pc, run_no, model_arg,
                   resume_from_file, model_selection, model_path, model_name,
                   temp_download_paths, temp_cleaned, pipeline, header_written,
                   hdr_cl, reads_already_processed, loader_skip, out,
                   stats_sampler, final_stats, exit_status, ended_by, validations,
                   rejected, copy_called, replayed, load_called, ref, hdr,
                   progress, summarized, runners, not_run>>

\* The pipeline hands a read to the writer node, which writes its record.
WriteRead ==
    /\ run_pc \in {"loading", "terminate"}
    /\ \E r \in in_flight :
          /\ in_flight' = in_flight \ {r}
          /\ out' = Append(out, WholeRecord(r))
    /\ UNCHANGED <<data_reads, artifact, run_pc, run_no, model_arg,
                   resume_from_file, model_selection, model_path, model_name,
                   temp_download_paths, temp_cleaned, pipeline, header_written,
                   hdr_cl, reads_already_processed, loader_skip, fed,
                   stats_sampler, final_stats, exit_status, ended_by, validations,
                   rejected, copy_called, replayed, load_called, ref, hdr,
                   progress, summarized, runners, not_run>>

\* DataLoader::load_reads returns: every read not to be skipped was pushed.
LoadReadsReturn ==
    /\ run_pc = "loading"
    /\ (data_reads \ loader_skip) \subseteq fed
    /\ run_pc' = "terminate"
    /\ UNCHANGED <<data_reads, artifact, run_no, model_arg, resume_from_file,
                   model_selection, model_path, model_name, temp_download_paths,
                   temp_cleaned, pipeline, header_written, hdr_cl,
                   reads_already_processed, loader_skip, fed, in_flight, out,
                   stats_sampler, final_stats, exit_status, ended_by, validations,
                   rejected, copy_called, replayed, load_called, ref, hdr,
                   progress, summarized, runners, not_run>>

\* setup: Pipeline::terminate returns once the pipeline has drained; the
\* stats it returns are the final counters of the nodes, here the count of
\* records the writer has written.
PipelineTerminate ==
    /\ run_pc = "terminate"
    /\ in_flight = {}
    /\ pipeline' = "terminated"
    /\ final_stats' = Len(out)
    /\ run_pc' = "sampler_stop"
    /\ UNCHANGED <<data_reads, artifact, run_no, model_arg, resume_from_file,
                   model_selection, model_path, model_name, temp_download_paths,
                   temp_cleaned, header_written, hdr_cl, reads_already_processed,
                   loader_skip, fed, in_flight, out, stats_sampler, exit_status,
                   ended_by, validations, rejected, copy_called, replayed,
                   load_called, ref, hdr, progress, summarized, runners, not_run>>

\* The stats sampler thread fires: it reads the stats of the nodes and the
\* progress tracker is updated with them.
SamplerTick ==
    /\ stats_sampler = "running"
    /\ progress # Len(out)
    /\ progress' = Len(out)
    /\ UNCHANGED <<data_reads, artifact, run_pc, run_no, model_arg,
                   resume_from_file, model_selection, model_path, model_name,
                   temp_download_paths, temp_cleaned, pipeline, header_written,
                   hdr_cl, reads_already_processed, loader_skip, fed, in_flight,
                   out, stats_sampler, final_stats, exit_status, ended_by,
                   validations, rejected, copy_called, replayed, load_called, ref,
                   hdr, summarized, runners, not_run>>

\* setup: the stats sampler is stopped.
SamplerTerminate ==
    /\ run_pc = "sampler_stop"
    /\ stats_sampler' = "stopped"
    /\ run_pc' = "summarize"
    /\ UNCHANGED <<data_reads, artifact, run_no, model_arg, resume_from_file,
                   model_selection, model_path, model_name, temp_download_paths,
                   temp_cleaned, pipeline, header_written, hdr_cl,
                   reads_already_processed, loader_skip, fed, in_flight, out,
                   final_stats, exit_status, ended_by, validations, rejected,
                   copy_called, replayed, load_called, ref, hdr, progress,
                   summarized, runners, not_run>>

\* SetupSummarize without the update of the tracker from the final stats.
SetupSummarize_NoFinalUpdate ==
    /\ run_pc = "summarize"
    /\ summarized' = TRUE
    /\ run_pc' = "return"
    /\ UNCHANGED <<data_reads, artifact, run_no, model_arg, resume_from_file,
                   model_selection, model_path, model_name, temp_download_paths,
                   temp_cleaned, pipeline, header_written, hdr_cl,
                   reads_already_processed, loader_skip, fed, in_flight, out,
                   stats_sampler, final_stats, exit_status, ended_by, validations,
                   rejected, copy_called, replayed, load_called, ref, hdr,
                   progress, runners, not_run>>

\* setup: the progress tracker is updated with the final stats and summarizes.
SetupSummarize ==
    /\ run_pc = "summarize"
    /\ progress' = final_stats
    /\ summarized' = TRUE
    /\ run_pc' = "return"
    /\ UNCHANGED <<data_reads, artifact, run_no, model_arg, resume_from_file,
                   model_selection, model_path, model_name, temp_download_paths,
                   temp_cleaned, pipeline, header_written, hdr_cl,
                   reads_already_processed, loader_skip, fed, in_flight, out,
                   stats_sampler, final_stats, exit_status, ended_by, validations,
                   rejected, copy_called, replayed, load_called, ref, hdr, runners,
                   not_run>>

\* setup returns, which destroys the loader, the sampler and the pipeline;
\* basecaller cleans the temporary models and returns 0.
SetupReturn ==
    /\ run_pc = "return"
    /\ pipeline' = "destroyed"
    /\ temp_cleaned' = TRUE
    /\ exit_status' = 0
    /\ ended_by' = "return"
    /\ run_pc' = "ended"
    /\ UNCHANGED <<data_reads, artifact, run_no, model_arg, resume_from_file,
                   model_selection, model_path, model_name, temp_download_paths,
                   header_written, hdr_cl, reads_already_processed, loader_skip,
                   fed, in_flight, out, stats_sampler, final_stats, validations,
                   rejected, copy_called, replayed, load_called, ref, hdr,
                   progress, summarized, runners, not_run>>

\* basecaller: the exception of setup, which destroyed what setup had built,
\* is caught, the temporary models are cleaned and 1 is returned.
BasecallerCatch ==
    /\ run_pc = "catch"
    /\ pipeline' = IF pipeline = "none" THEN "none" ELSE "destroyed"
    /\ temp_cleaned' = TRUE
    /\ exit_status' = 1
    /\ ended_by' = "return"
    /\ run_pc' = "ended"
    /\ UNCHANGED <<data_reads, artifact, run_no, model_arg, resume_from_file,
                   model_selection, model_path, model_name, temp_download_paths,
                   header_written, hdr_cl, reads_already_processed, loader_skip,
                   fed, in_flight, out, stats_sampler, final_stats, validations,
                   rejected, copy_called, replayed, load_called, ref, hdr,
                   progress, summarized, runners, not_run>>

\* The process is gone: nothing of the run is left but its output.
ProcessGone ==
    /\ model_arg' = NoArg /\ resume_from_file' = FALSE
    /\ model_selection' = parse_model_argument(NoArg)
    /\ model_path' = NoArg /\ model_name' = ""
    /\ temp_download_paths' = FALSE /\ temp_cleaned' = FALSE
    /\ pipeline' = "none" /\ header_written' = FALSE /\ hdr_cl' = NoArg
    /\ reads_already_processed' = {} /\ loader_skip' = {}
    /\ fed' = {} /\ in_flight' = {} /\ out' = <<>>
    /\ stats_sampler' = "none" /\ final_stats' = -1
    /\ exit_status' = -1 /\ ended_by' = "none"
    /\ validations' = 0 /\ rejected' = FALSE
    /\ copy_called' = FALSE /\ replayed' = <<>> /\ load_called' = FALSE
    /\ ref' = FALSE /\ hdr' = {}
    /\ progress' = 0 /\ summarized' = FALSE
    /\ runners' = FALSE

\* The output of the ended run is kept as the file a later run may resume
\* from, with its header and its first k records; the tail is lost, at a
\* record boundary or inside record k + 1.
TruncateOutput ==
    /\ run_pc = "ended"
    /\ run_no < MaxRuns
    /\ header_written
    /\ \E k \in 0..Len(out), cut \in BOOLEAN :
          /\ cut => k < Len(out)
          /\ artifact' =
                [present |-> TRUE,
                 cl |-> hdr_cl,
                 records |-> SubSeq(out, 1, k) \o
                             (IF cut THEN <<CutRecord(out[k + 1].id)>> ELSE <<>>),
                 parent_complete |-> /\ resume_from_file
                                     /\ get_processed_read_ids(artifact) = data_reads]
    /\ run_pc' = "idle"
    /\ ProcessGone
    /\ UNCHANGED <<data_reads, run_no, not_run>>

\* The output of the ended run is discarded.
DiscardOutput ==
    /\ run_pc = "ended"
    /\ run_no < MaxRuns
    /\ run_pc' = "idle"
    /\ ProcessGone
    /\ UNCHANGED <<data_reads, artifact, run_no, not_run>>

Next_run ==
    \/ StartRun
    \/ UseModelPath
    \/ FetchModel
    \/ FetchModelFails
    \/ SetupBegin
    \/ SetupNoData
    \/ SetupNoReads
    \/ SetupCountReads
    \/ SetupCreatePipeline
    \/ SetupCreatePipelineFails
    \/ SetupWriteHeader
    \/ SetupNoResume
    \/ SetupResumeValidate
    \/ SetupResumeCopy
    \/ SetupMakeLoader
    \/ LoadReadsCall
    \/ LoadRead
    \/ WriteRead
    \/ LoadReadsReturn
    \/ PipelineTerminate
    \/ SamplerTick
    \/ SamplerTerminate
    \/ SetupSummarize
    \/ SetupReturn
    \/ BasecallerCatch
    \/ TruncateOutput
    \/ DiscardOutput


\* ====================================================================
\* basecaller and setup: from the command line to the pipeline descriptor
\* ====================================================================

\* The values --trim is given in the model: absent, the four the code knows,
\* and one it does not.
TrimValues == {"", "none", "primers", "adapters", "all", "both"}

\* The handle no node has.
InvalidNodeHandle == -1

\* setup: adapter or primer trimming is enabled unless both are switched off.
adapter_trimming_enabled == (~no_trim_adapters) \/ (~no_trim_primers)

\* The same with the barcode kits alone.
barcode_enabled_KitOnly ==
    kit_name_used

\* setup: barcoding is enabled by a kit name or by a custom arrangement.
barcode_enabled ==
    kit_name_used \/ custom_kit

Max(a, b) == IF a >= b THEN a ELSE b

\* The allocator: the decode stages scale with the devices, every enabled
\* stage of the host gets its share with a floor of one thread, a disabled
\* stage gets none.
default_thread_allocations(devices, remora, with_aligner, with_barcoder, with_adapter) ==
    LET share == Max(1, hardware_concurrency \div 2)
    IN  [ writer_threads         |-> 1,
          read_converter_threads |-> 1,
          read_filter_threads    |-> 1,
          remora_threads         |-> remora,
          scaler_node_threads    |-> Max(1, devices),
          splitter_node_threads  |-> 1,
          loader_threads         |-> 1,
          aligner_threads        |-> IF with_aligner THEN share ELSE 0,
          barcoder_threads       |-> IF with_barcoder THEN share ELSE 0,
          adapter_threads        |-> IF with_adapter THEN share ELSE 0 ]

NoAllocations == [ f \in { "writer_threads", "read_converter_threads",
                           "read_filter_threads", "remora_threads",
                           "scaler_node_threads", "splitter_node_threads",
                           "loader_threads", "aligner_threads",
                           "barcoder_threads", "adapter_threads" } |-> 0 ]

\* PipelineDescriptor::add_node: the node is appended with the handles of
\* its sinks and its thread count; its handle is its position.
add_node(desc, type, sinks, threads) ==
    Append(desc, [type |-> type, sinks |-> sinks, threads |-> threads])

\* The simplex front of the graph, upstream of first_node_handle: the read
\* splitter, the modified-base caller when there are runners for it, the
\* basecaller and the scaler, each feeding the one added before it.
create_simplex_pipeline(desc, devices, with_remora, scaler, splitter, modbase, sink) ==
    LET d1 == add_node(desc, "ReadSplitNode", {sink}, splitter)
        d2 == IF with_remora
              THEN add_node(d1, "ModBaseCallerNode", {Len(d1)}, modbase)
              ELSE d1
        d3 == add_node(d2, "BasecallerNode", {Len(d2)}, Max(1, devices))
    IN  add_node(d3, "ScalerNode", {Len(d3)}, scaler)

Init_build_locals ==
    /\ no_trim_barcodes = FALSE /\ no_trim_primers = FALSE /\ no_trim_adapters = FALSE
    /\ custom_kit = FALSE
    /\ build_exit = -1
    /\ thread_allocations = NoAllocations
    /\ pipeline_desc = <<>>
    /\ hts_writer = InvalidNodeHandle /\ aligner = InvalidNodeHandle
    /\ current_sink_node = InvalidNodeHandle

Idle_build ==
    /\ trim_options = "" /\ no_trim = FALSE /\ estimate_poly_a = FALSE
    /\ kit_name_used = FALSE /\ barcode_arrangement_used = FALSE
    /\ num_devices = 1 /\ remora_runners = FALSE /\ num_remora_threads = 1
    /\ hardware_concurrency = 1
    /\ build_pc = "off"
    /\ Init_build_locals

\* The command line and the machine are arbitrary; the option values are
\* parsed, nothing is built.
Init_build ==
    /\ trim_options \in TrimValues
    /\ no_trim \in BOOLEAN
    /\ estimate_poly_a \in BOOLEAN
    /\ kit_name_used \in BOOLEAN
    /\ barcode_arrangement_used \in BOOLEAN
    /\ ref \in BOOLEAN
    /\ num_devices \in 1..MaxDevices
    /\ remora_runners \in BOOLEAN
    /\ num_remora_threads \in 1..MaxRemoraThreads
    /\ hardware_concurrency \in 0..MaxHostThreads
    /\ build_pc = "trim"
    /\ Init_build_locals

\* basecaller: --no-trim together with a --trim value is refused.
TrimConflict ==
    /\ build_pc = "trim"
    /\ no_trim /\ trim_options # ""
    /\ build_pc' = "exit" /\ build_exit' = 1
    /\ UNCHANGED <<trim_options, no_trim, estimate_poly_a, kit_name_used,
                   barcode_arrangement_used, num_devices, remora_runners,
                   num_remora_threads, hardware_concurrency, no_trim_barcodes,
                   no_trim_primers, no_trim_adapters, custom_kit,
                   thread_allocations, pipeline_desc, hts_writer, aligner,
                   current_sink_node, realign_vars, map_vars, run_vars, pipe_vars,
                   output_vars>>

\* basecaller: a --trim value the code does not know is refused.
TrimUnsupported ==
    /\ build_pc = "trim"
    /\ ~(no_trim /\ trim_options # "")
    /\ trim_options \notin {"", "none", "primers", "adapters", "all"}
    /\ build_pc' = "exit" /\ build_exit' = 1
    /\ UNCHANGED <<trim_options, no_trim, estimate_poly_a, kit_name_used,
                   barcode_arrangement_used, num_devices, remora_runners,
                   num_remora_threads, hardware_concurrency, no_trim_barcodes,
                   no_trim_primers, no_trim_adapters, custom_kit,
                   thread_allocations, pipeline_desc, hts_writer, aligner,
                   current_sink_node, realign_vars, map_vars, run_vars, pipe_vars,
                   output_vars>>

\* basecaller: --no-trim and --trim set the three no_trim flags.
ParseTrim ==
    /\ build_pc = "trim"
    /\ ~(no_trim /\ trim_options # "")
    /\ trim_options \in {"", "none", "primers", "adapters", "all"}
    /\ no_trim_barcodes' = (no_trim \/ trim_options \in {"none", "primers", "adapters"})
    /\ no_trim_primers' = (no_trim \/ trim_options \in {"none", "adapters"})
    /\ no_trim_adapters' = (no_trim \/ trim_options = "none")
    /\ build_pc' = "polya"
    /\ UNCHANGED <<trim_options, no_trim, estimate_poly_a, kit_name_used,
                   barcode_arrangement_used, num_devices, remora_runners,
                   num_remora_threads, hardware_concurrency, custom_kit,
                   build_exit, thread_allocations, pipeline_desc, hts_writer,
                   aligner, current_sink_node, realign_vars, map_vars, run_vars, pipe_vars,
                   output_vars>>

\* basecaller: --estimate-poly-a with --trim primers, adapters or all is
\* refused.
EstimatePolyATrimConflict ==
    /\ build_pc = "polya"
    /\ estimate_poly_a
    /\ trim_options \in {"primers", "adapters", "all"}
    /\ build_pc' = "exit" /\ build_exit' = 1
    /\ UNCHANGED <<trim_options, no_trim, estimate_poly_a, kit_name_used,
                   barcode_arrangement_used, num_devices, remora_runners,
                   num_remora_threads, hardware_concurrency, no_trim_barcodes,
                   no_trim_primers, no_trim_adapters, custom_kit,
                   thread_allocations, pipeline_desc, hts_writer, aligner,
                   current_sink_node, realign_vars, map_vars, run_vars, pipe_vars,
                   output_vars>>

\* The same without switching the trimming off.
EstimatePolyA_KeepTrimming ==
    /\ build_pc = "polya"
    /\ ~(estimate_poly_a /\ trim_options \in {"primers", "adapters", "all"})
    /\ build_pc' = "kit"
    /\ UNCHANGED <<trim_options, no_trim, estimate_poly_a, kit_name_used,
                   barcode_arrangement_used, num_devices, remora_runners,
                   num_remora_threads, hardware_concurrency, no_trim_barcodes,
                   no_trim_primers, no_trim_adapters, custom_kit, build_exit,
                   thread_allocations, pipeline_desc, hts_writer, aligner,
                   current_sink_node, realign_vars, map_vars, run_vars, pipe_vars,
                   output_vars>>

\* basecaller: --estimate-poly-a switches primer and adapter trimming off.
EstimatePolyA ==
    /\ build_pc = "polya"
    /\ ~(estimate_poly_a /\ trim_options \in {"primers", "adapters", "all"})
    /\ no_trim_primers' = (estimate_poly_a \/ no_trim_primers)
    /\ no_trim_adapters' = (estimate_poly_a \/ no_trim_adapters)
    /\ build_pc' = "kit"
    /\ UNCHANGED <<trim_options, no_trim, estimate_poly_a, kit_name_used,
                   barcode_arrangement_used, num_devices, remora_runners,
                   num_remora_threads, hardware_concurrency, no_trim_barcodes,
                   custom_kit, build_exit, thread_allocations, pipeline_desc,
                   hts_writer, aligner, current_sink_node, realign_vars, map_vars,
                   run_vars, pipe_vars,
                   output_vars>>

\* basecaller: --kit-name together with --barcode-arrangement is refused.
KitConflict ==
    /\ build_pc = "kit"
    /\ kit_name_used /\ barcode_arrangement_used
    /\ build_pc' = "exit" /\ build_exit' = 1
    /\ UNCHANGED <<trim_options, no_trim, estimate_poly_a, kit_name_used,
                   barcode_arrangement_used, num_devices, remora_runners,
                   num_remora_threads, hardware_concurrency, no_trim_barcodes,
                   no_trim_primers, no_trim_adapters, custom_kit,
                   thread_allocations, pipeline_desc, hts_writer, aligner,
                   current_sink_node, realign_vars, map_vars, run_vars, pipe_vars,
                   output_vars>>

\* basecaller: the custom kit is the value of --barcode-arrangement; setup is
\* called.
ParseKit ==
    /\ build_pc = "kit"
    /\ ~(kit_name_used /\ barcode_arrangement_used)
    /\ custom_kit' = barcode_arrangement_used
    /\ build_pc' = "setup"
    /\ UNCHANGED <<trim_options, no_trim, estimate_poly_a, kit_name_used,
                   barcode_arrangement_used, num_devices, remora_runners,
                   num_remora_threads, hardware_concurrency, no_trim_barcodes,
                   no_trim_primers, no_trim_adapters, build_exit,
                   thread_allocations, pipeline_desc, hts_writer, aligner,
                   current_sink_node, realign_vars, map_vars, run_vars, pipe_vars,
                   output_vars>>

\* setup: the thread allocations, from the devices, the modified-base threads
\* (none without runners) and the enabled stages.
SetupThreadAllocations ==
    /\ build_pc = "setup"
    /\ thread_allocations' =
           default_thread_allocations(num_devices,
                                      IF remora_runners THEN num_remora_threads ELSE 0,
                                      enable_aligner, barcode_enabled,
                                      adapter_trimming_enabled)
    /\ build_pc' = "writer"
    /\ UNCHANGED <<trim_options, no_trim, estimate_poly_a, kit_name_used,
                   barcode_arrangement_used, num_devices, remora_runners,
                   num_remora_threads, hardware_concurrency, no_trim_barcodes,
                   no_trim_primers, no_trim_adapters, custom_kit, build_exit,
                   pipeline_desc, hts_writer, aligner, current_sink_node,
                   realign_vars, map_vars, run_vars, pipe_vars,
                   output_vars>>

\* setup: the writer is the first node and the first sink.
AddHtsWriter ==
    /\ build_pc = "writer"
    /\ pipeline_desc' = add_node(pipeline_desc, "HtsWriter", {},
                                 thread_allocations.writer_threads)
    /\ hts_writer' = Len(pipeline_desc')
    /\ aligner' = InvalidNodeHandle
    /\ current_sink_node' = hts_writer'
    /\ build_pc' = "aligner"
    /\ UNCHANGED <<trim_options, no_trim, estimate_poly_a, kit_name_used,
                   barcode_arrangement_used, num_devices, remora_runners,
                   num_remora_threads, hardware_concurrency, no_trim_barcodes,
                   no_trim_primers, no_trim_adapters, custom_kit, build_exit,
                   thread_allocations, realign_vars, map_vars, run_vars, pipe_vars,
                   output_vars>>

\* setup: with a reference the aligner is added in front of the writer.
AddAligner ==
    /\ build_pc = "aligner"
    /\ IF enable_aligner
       THEN /\ pipeline_desc' = add_node(pipeline_desc, "AlignerNode", {current_sink_node},
                                         thread_allocations.aligner_threads)
            /\ aligner' = Len(pipeline_desc')
            /\ current_sink_node' = aligner'
       ELSE UNCHANGED <<pipeline_desc, aligner, current_sink_node>>
    /\ build_pc' = "converter"
    /\ UNCHANGED <<trim_options, no_trim, estimate_poly_a, kit_name_used,
                   barcode_arrangement_used, num_devices, remora_runners,
                   num_remora_threads, hardware_concurrency, no_trim_barcodes,
                   no_trim_primers, no_trim_adapters, custom_kit, build_exit,
                   thread_allocations, hts_writer, realign_vars, map_vars, run_vars, pipe_vars,
                   output_vars>>

\* The same with the handle of the node after it as the sink.
AddReadConverter_ForwardRef ==
    /\ build_pc = "converter"
    /\ pipeline_desc' = add_node(pipeline_desc, "ReadToBamType", {Len(pipeline_desc) + 2},
                                 thread_allocations.read_converter_threads)
    /\ current_sink_node' = Len(pipeline_desc')
    /\ build_pc' = "polya_node"
    /\ UNCHANGED <<trim_options, no_trim, estimate_poly_a, kit_name_used,
                   barcode_arrangement_used, num_devices, remora_runners,
                   num_remora_threads, hardware_concurrency, no_trim_barcodes,
                   no_trim_primers, no_trim_adapters, custom_kit, build_exit,
                   thread_allocations, hts_writer, aligner, realign_vars, map_vars,
                   run_vars, pipe_vars,
                   output_vars>>

\* setup: the format converter is added in front of the current sink.
AddReadConverter ==
    /\ build_pc = "converter"
    /\ pipeline_desc' = add_node(pipeline_desc, "ReadToBamType", {current_sink_node},
                                 thread_allocations.read_converter_threads)
    /\ current_sink_node' = Len(pipeline_desc')
    /\ build_pc' = "polya_node"
    /\ UNCHANGED <<trim_options, no_trim, estimate_poly_a, kit_name_used,
                   barcode_arrangement_used, num_devices, remora_runners,
                   num_remora_threads, hardware_concurrency, no_trim_barcodes,
                   no_trim_primers, no_trim_adapters, custom_kit, build_exit,
                   thread_allocations, hts_writer, aligner, realign_vars, map_vars,
                   run_vars, pipe_vars,
                   output_vars>>

\* The same with the calculator feeding the sink of the converter.
AddPolyACalculator_BesideConverter ==
    /\ build_pc = "polya_node"
    /\ IF estimate_poly_a
       THEN /\ pipeline_desc' = add_node(pipeline_desc, "PolyACalculator",
                                         pipeline_desc[current_sink_node].sinks,
                                         hardware_concurrency)
            /\ current_sink_node' = Len(pipeline_desc')
       ELSE UNCHANGED <<pipeline_desc, current_sink_node>>
    /\ build_pc' = "adapter"
    /\ UNCHANGED <<trim_options, no_trim, estimate_poly_a, kit_name_used,
                   barcode_arrangement_used, num_devices, remora_runners,
                   num_remora_threads, hardware_concurrency, no_trim_barcodes,
                   no_trim_primers, no_trim_adapters, custom_kit, build_exit,
                   thread_allocations, hts_writer, aligner, realign_vars, map_vars,
                   run_vars, pipe_vars,                    output_vars>>

\* setup: with estimate_poly_a the poly-A calculator is added, with as many
\* threads as the host reports.
AddPolyACalculator ==
    /\ build_pc = "polya_node"
    /\ IF estimate_poly_a
       THEN /\ pipeline_desc' = add_node(pipeline_desc, "PolyACalculator",
                                         {current_sink_node}, hardware_concurrency)
            /\ current_sink_node' = Len(pipeline_desc')
       ELSE UNCHANGED <<pipeline_desc, current_sink_node>>
    /\ build_pc' = "adapter"
    /\ UNCHANGED <<trim_options, no_trim, estimate_poly_a, kit_name_used,
                   barcode_arrangement_used, num_devices, remora_runners,
                   num_remora_threads, hardware_concurrency, no_trim_barcodes,
                   no_trim_primers, no_trim_adapters, custom_kit, build_exit,
                   thread_allocations, hts_writer, aligner, realign_vars, map_vars,
                   run_vars, pipe_vars,
                   output_vars>>

\* The same with the node put at the head of the descriptor.
AddAdapterDetector_Early ==
    /\ build_pc = "adapter"
    /\ IF adapter_trimming_enabled
       THEN /\ pipeline_desc' = << [type |-> "AdapterDetectorNode", sinks |-> {},
                                    threads |-> thread_allocations.adapter_threads] >>
                                \o pipeline_desc
            /\ current_sink_node' = Len(pipeline_desc')
       ELSE UNCHANGED <<pipeline_desc, current_sink_node>>
    /\ build_pc' = "barcode"
    /\ UNCHANGED <<trim_options, no_trim, estimate_poly_a, kit_name_used,
                   barcode_arrangement_used, num_devices, remora_runners,
                   num_remora_threads, hardware_concurrency, no_trim_barcodes,
                   no_trim_primers, no_trim_adapters, custom_kit, build_exit,
                   thread_allocations, hts_writer, aligner, realign_vars, map_vars,
                   run_vars, pipe_vars,
                   output_vars>>

\* setup: with adapter or primer trimming the adapter detector is added.
AddAdapterDetector ==
    /\ build_pc = "adapter"
    /\ IF adapter_trimming_enabled
       THEN /\ pipeline_desc' = add_node(pipeline_desc, "AdapterDetectorNode",
                                         {current_sink_node},
                                         thread_allocations.adapter_threads)
            /\ current_sink_node' = Len(pipeline_desc')
       ELSE UNCHANGED <<pipeline_desc, current_sink_node>>
    /\ build_pc' = "barcode"
    /\ UNCHANGED <<trim_options, no_trim, estimate_poly_a, kit_name_used,
                   barcode_arrangement_used, num_devices, remora_runners,
                   num_remora_threads, hardware_concurrency, no_trim_barcodes,
                   no_trim_primers, no_trim_adapters, custom_kit, build_exit,
                   thread_allocations, hts_writer, aligner, realign_vars, map_vars,
                   run_vars, pipe_vars,
                   output_vars>>

\* The same with the classifier given no sink.
AddBarcodeClassifier_NoSink ==
    /\ build_pc = "barcode"
    /\ IF barcode_enabled
       THEN /\ pipeline_desc' = add_node(pipeline_desc, "BarcodeClassifierNode", {},
                                         thread_allocations.barcoder_threads)
            /\ current_sink_node' = Len(pipeline_desc')
       ELSE UNCHANGED <<pipeline_desc, current_sink_node>>
    /\ build_pc' = "filter"
    /\ UNCHANGED <<trim_options, no_trim, estimate_poly_a, kit_name_used,
                   barcode_arrangement_used, num_devices, remora_runners,
                   num_remora_threads, hardware_concurrency, no_trim_barcodes,
                   no_trim_primers, no_trim_adapters, custom_kit, build_exit,
                   thread_allocations, hts_writer, aligner, realign_vars, map_vars,
                   run_vars, pipe_vars,
                   output_vars>>

\* setup: with barcoding the barcode classifier is added.
AddBarcodeClassifier ==
    /\ build_pc = "barcode"
    /\ IF barcode_enabled
       THEN /\ pipeline_desc' = add_node(pipeline_desc, "BarcodeClassifierNode",
                                         {current_sink_node},
                                         thread_allocations.barcoder_threads)
            /\ current_sink_node' = Len(pipeline_desc')
       ELSE UNCHANGED <<pipeline_desc, current_sink_node>>
    /\ build_pc' = "filter"
    /\ UNCHANGED <<trim_options, no_trim, estimate_poly_a, kit_name_used,
                   barcode_arrangement_used, num_devices, remora_runners,
                   num_remora_threads, hardware_concurrency, no_trim_barcodes,
                   no_trim_primers, no_trim_adapters, custom_kit, build_exit,
                   thread_allocations, hts_writer, aligner, realign_vars, map_vars,
                   run_vars, pipe_vars,
                   output_vars>>

\* setup: the read filter is added in front of the current sink.
AddReadFilter ==
    /\ build_pc = "filter"
    /\ pipeline_desc' = add_node(pipeline_desc, "ReadFilterNode", {current_sink_node},
                                 thread_allocations.read_filter_threads)
    /\ current_sink_node' = Len(pipeline_desc')
    /\ build_pc' = "simplex"
    /\ UNCHANGED <<trim_options, no_trim, estimate_poly_a, kit_name_used,
                   barcode_arrangement_used, num_devices, remora_runners,
                   num_remora_threads, hardware_concurrency, no_trim_barcodes,
                   no_trim_primers, no_trim_adapters, custom_kit, build_exit,
                   thread_allocations, hts_writer, aligner, realign_vars, map_vars,
                   run_vars, pipe_vars,
                   output_vars>>

\* setup: the simplex front is added in front of the current sink; the
\* descriptor is complete.
CreateSimplexPipeline ==
    /\ build_pc = "simplex"
    /\ pipeline_desc' = create_simplex_pipeline(pipeline_desc, num_devices, remora_runners,
                                                thread_allocations.scaler_node_threads,
                                                thread_allocations.splitter_node_threads,
                                                thread_allocations.remora_threads,
                                                current_sink_node)
    /\ build_pc' = "built"
    /\ UNCHANGED <<trim_options, no_trim, estimate_poly_a, kit_name_used,
                   barcode_arrangement_used, num_devices, remora_runners,
                   num_remora_threads, hardware_concurrency, no_trim_barcodes,
                   no_trim_primers, no_trim_adapters, custom_kit, build_exit,
                   thread_allocations, hts_writer, aligner, current_sink_node,
                   realign_vars, map_vars, run_vars, pipe_vars,
                   output_vars>>

Next_build ==
    \/ TrimConflict
    \/ TrimUnsupported
    \/ ParseTrim
    \/ EstimatePolyATrimConflict
    \/ EstimatePolyA
    \/ KitConflict
    \/ ParseKit
    \/ SetupThreadAllocations
    \/ AddHtsWriter
    \/ AddAligner
    \/ AddReadConverter
    \/ AddPolyACalculator
    \/ AddAdapterDetector
    \/ AddBarcodeClassifier
    \/ AddReadFilter
    \/ CreateSimplexPipeline


\* ====================================================================
\* setup: the pipeline at work, from Pipeline::create to terminate
\* ====================================================================

PipeReads == 1..NumPipeReads

\* A read as the loader feeds it, and the sub-reads the splitter makes of it.
WholeRead(r) == [id |-> r, part |-> 0]

SubReads(rec) == { [id |-> rec.id, part |-> 1], [id |-> rec.id, part |-> 2] }

AllRecords == { [id |-> r, part |-> p] : r \in PipeReads, p \in 0..2 }

NoStats == [written |-> 0, filtered |-> 0]

\* The node the loader pushes into: the one added last, the head of the
\* simplex front.
source_node == Len(pipeline_desc)

\* The nodes that hand every message on to their sink as one message.
PassTypes == { "ScalerNode", "BasecallerNode", "ModBaseCallerNode", "PolyACalculator",
               "AdapterDetectorNode", "BarcodeClassifierNode", "ReadToBamType",
               "AlignerNode" }

\* The same with queues without a capacity.
HasRoom_Unbounded(i, n) ==
    TRUE

\* Every sink of node i has room for n more messages.
HasRoom(i, n) ==
    \A h \in pipeline_desc[i].sinks : Cardinality(queue[h]) + n <= QueueCap

\* Node i takes rec from its queue and pushes outs to its sinks.
Forward(i, rec, outs) ==
    [ h \in DOMAIN queue |->
        IF h \in pipeline_desc[i].sinks
        THEN (queue[h] \ (IF h = i THEN {rec} ELSE {})) \cup outs
        ELSE IF h = i THEN queue[h] \ {rec} ELSE queue[h] ]

InFlight == (UNION { queue[h] : h \in DOMAIN queue }) \cup writing

Idle_pipe ==
    /\ pipe_pc = "off" /\ source_left = {}
    /\ queue = <<>> /\ writing = {}
    /\ written = [rec \in AllRecords |-> 0] /\ dropped = {}
    /\ node_stats = NoStats
    /\ terminate_calls = 0 /\ pending_at_terminate = FALSE
    /\ terminate_stats = NoStats

\* Nothing is created yet; the data path holds the reads.
Init_pipe ==
    /\ pipe_pc = "wait" /\ source_left = PipeReads
    /\ queue = <<>> /\ writing = {}
    /\ written = [rec \in AllRecords |-> 0] /\ dropped = {}
    /\ node_stats = NoStats
    /\ terminate_calls = 0 /\ pending_at_terminate = FALSE
    /\ terminate_stats = NoStats

\* setup: the Pipeline is created from the descriptor, every node with an
\* empty queue.
PipelineCreate ==
    /\ pipe_pc = "wait"
    /\ build_pc = "built"
    /\ queue' = [h \in 1..Len(pipeline_desc) |-> {}]
    /\ pipe_pc' = "loading"
    /\ UNCHANGED <<source_left, writing, written, dropped, node_stats,
                   terminate_calls, pending_at_terminate, terminate_stats,
                   realign_vars, map_vars, run_vars, build_vars, output_vars>>

\* setup, load_reads: the loader pushes the next read into the source node,
\* when its queue has room.
PipeLoadRead ==
    /\ pipe_pc = "loading"
    /\ source_left # {}
    /\ Cardinality(queue[source_node]) < QueueCap
    /\ LET r == CHOOSE x \in source_left : \A y \in source_left : x <= y
       IN  /\ queue' = [queue EXCEPT ![source_node] = @ \cup {WholeRead(r)}]
           /\ source_left' = source_left \ {r}
    /\ UNCHANGED <<pipe_pc, writing, written, dropped, node_stats, terminate_calls,
                   pending_at_terminate, terminate_stats, realign_vars, map_vars,
                   run_vars, build_vars, output_vars>>

\* A worker of a node takes a message and hands it on to the sink.
NodePass ==
    /\ \E i \in DOMAIN queue : \E rec \in queue[i] :
           /\ pipeline_desc[i].type \in PassTypes
           /\ HasRoom(i, 1)
           /\ queue' = Forward(i, rec, {rec})
    /\ UNCHANGED <<pipe_pc, source_left, writing, written, dropped, node_stats,
                   terminate_calls, pending_at_terminate, terminate_stats,
                   realign_vars, map_vars, run_vars, build_vars, output_vars>>

\* A worker of the read splitter hands a read on as it is, or as its two
\* sub-reads.
SplitterWork ==
    /\ \E i \in DOMAIN queue : \E rec \in queue[i] :
           /\ pipeline_desc[i].type = "ReadSplitNode"
           /\ \/ /\ HasRoom(i, 1)
                 /\ queue' = Forward(i, rec, {rec})
              \/ /\ rec.part = 0
                 /\ HasRoom(i, 2)
                 /\ queue' = Forward(i, rec, SubReads(rec))
    /\ UNCHANGED <<pipe_pc, source_left, writing, written, dropped, node_stats,
                   terminate_calls, pending_at_terminate, terminate_stats,
                   realign_vars, map_vars, run_vars, build_vars, output_vars>>

\* A worker of the read filter hands a read on, or drops and counts it.
FilterWork ==
    /\ \E i \in DOMAIN queue : \E rec \in queue[i] :
           /\ pipeline_desc[i].type = "ReadFilterNode"
           /\ \/ /\ HasRoom(i, 1)
                 /\ queue' = Forward(i, rec, {rec})
                 /\ UNCHANGED <<dropped, node_stats>>
              \/ /\ queue' = Forward(i, rec, {})
                 /\ dropped' = dropped \cup {rec}
                 /\ node_stats' = [node_stats EXCEPT !.filtered = @ + 1]
    /\ UNCHANGED <<pipe_pc, source_left, writing, written, terminate_calls,
                   pending_at_terminate, terminate_stats, realign_vars, map_vars,
                   run_vars, build_vars, output_vars>>

\* The worker of the writer takes a record from its queue.
WriterTake ==
    /\ writing = {}
    /\ \E i \in DOMAIN queue : \E rec \in queue[i] :
           /\ pipeline_desc[i].type = "HtsWriter"
           /\ queue' = [queue EXCEPT ![i] = @ \ {rec}]
           /\ writing' = {rec}
    /\ UNCHANGED <<pipe_pc, source_left, written, dropped, node_stats,
                   terminate_calls, pending_at_terminate, terminate_stats,
                   realign_vars, map_vars, run_vars, build_vars, output_vars>>

\* The worker of the writer writes the record it holds to the output.
WriterWrite ==
    /\ writing # {}
    /\ \E rec \in writing :
           /\ written' = [written EXCEPT ![rec] = @ + 1]
           /\ node_stats' = [node_stats EXCEPT !.written = @ + 1]
    /\ writing' = {}
    /\ UNCHANGED <<pipe_pc, source_left, queue, dropped, terminate_calls,
                   pending_at_terminate, terminate_stats, realign_vars, map_vars,
                   run_vars, build_vars, output_vars>>

\* setup: load_reads has pushed every read and returns; terminate is called
\* on the pipeline.
PipeTerminateCall ==
    /\ pipe_pc = "loading"
    /\ source_left = {}
    /\ terminate_calls' = terminate_calls + 1
    /\ pending_at_terminate' = (InFlight # {})
    /\ pipe_pc' = "terminating"
    /\ UNCHANGED <<source_left, queue, writing, written, dropped, node_stats,
                   terminate_stats, realign_vars, map_vars, run_vars, build_vars, output_vars>>

\* The same without waiting for the queues and the workers.
PipeTerminateReturn_NoDrain ==
    /\ pipe_pc = "terminating"
    /\ terminate_stats' = node_stats
    /\ pipe_pc' = "terminated"
    /\ UNCHANGED <<source_left, queue, writing, written, dropped, node_stats,
                   terminate_calls, pending_at_terminate, realign_vars, map_vars,
                   run_vars, build_vars, output_vars>>

\* setup: terminate returns the counters of the nodes, once every queue is
\* empty and every worker is idle.
PipeTerminateReturn ==
    /\ pipe_pc = "terminating"
    /\ InFlight = {}
    /\ terminate_stats' = node_stats
    /\ pipe_pc' = "terminated"
    /\ UNCHANGED <<source_left, queue, writing, written, dropped, node_stats,
                   terminate_calls, pending_at_terminate, realign_vars, map_vars,
                   run_vars, build_vars, output_vars>>

Next_pipe ==
    \/ PipelineCreate
    \/ PipeLoadRead
    \/ NodePass
    \/ SplitterWork
    \/ FilterWork
    \/ WriterTake
    \/ WriterWrite
    \/ PipeTerminateCall
    \/ PipeTerminateReturn

\* The steps of basecaller and setup that build the descriptor of an
\* accepted command line.
Next_build_accepted ==
    \/ ParseTrim
    \/ EstimatePolyA
    \/ ParseKit
    \/ SetupThreadAllocations
    \/ AddHtsWriter
    \/ AddAligner
    \/ AddReadConverter
    \/ AddPolyACalculator
    \/ AddAdapterDetector
    \/ AddBarcodeClassifier
    \/ AddReadFilter
    \/ CreateSimplexPipeline

\* The command lines without --trim (and without --no-trim where
\* --estimate-poly-a switches the trimming off anyway), on a machine with one device, one host
\* thread and no modified-base runners.
Init_build_accepted ==
    /\ trim_options = ""
    /\ estimate_poly_a \in BOOLEAN
    /\ no_trim \in (IF estimate_poly_a THEN {FALSE} ELSE BOOLEAN)
    /\ kit_name_used \in BOOLEAN
    /\ barcode_arrangement_used = FALSE
    /\ ref \in BOOLEAN
    /\ num_devices = 1 /\ remora_runners = FALSE /\ num_remora_threads = 1
    /\ hardware_concurrency = 1
    /\ build_pc = "trim"
    /\ Init_build_locals


\* ====================================================================
\* basecaller: the options of the output format
\* ====================================================================

\* The number of ways the modified bases are selected.
ways == (IF has_mods_variant THEN 1 ELSE 0) + (IF mod_bases THEN 1 ELSE 0)
        + (IF mod_bases_models THEN 1 ELSE 0)

Idle_output ==
    /\ emit_fastq = FALSE /\ emit_sam = FALSE
    /\ has_mods_variant = FALSE /\ mod_bases = FALSE /\ mod_bases_models = FALSE
    /\ stdout_fd = "file" /\ output_mode = "unset"

\* Any options of the output format and of the modified bases, with or
\* without a reference, stdout a terminal, a pipe or a file; the other
\* options are left at their defaults.
Init_output ==
    /\ emit_fastq \in BOOLEAN /\ emit_sam \in BOOLEAN
    /\ has_mods_variant \in BOOLEAN /\ mod_bases \in BOOLEAN
    /\ mod_bases_models \in BOOLEAN
    /\ ref \in BOOLEAN
    /\ stdout_fd \in {"tty", "pipe", "file"}
    /\ output_mode = "unset"
    /\ trim_options = "" /\ no_trim = FALSE /\ estimate_poly_a = FALSE
    /\ kit_name_used = FALSE /\ barcode_arrangement_used = FALSE
    /\ num_devices = 1 /\ remora_runners = (ways > 0) /\ num_remora_threads = 1
    /\ hardware_concurrency = 1
    /\ build_pc = "options"
    /\ Init_build_locals

\* basecaller: more than one way of selecting the modified bases is refused.
ModsConflict ==
    /\ build_pc = "options"
    /\ ways > 1
    /\ build_pc' = "exit" /\ build_exit' = 1
    /\ UNCHANGED <<emit_fastq, emit_sam, has_mods_variant, mod_bases,
                   mod_bases_models, stdout_fd, output_mode, trim_options, no_trim,
                   estimate_poly_a, kit_name_used, barcode_arrangement_used,
                   num_devices, remora_runners, num_remora_threads,
                   hardware_concurrency, no_trim_barcodes, no_trim_primers,
                   no_trim_adapters, custom_kit, thread_allocations, pipeline_desc,
                   hts_writer, aligner, current_sink_node, realign_vars, map_vars,
                   run_vars, pipe_vars>>

\* basecaller: --emit-fastq together with --emit-sam is refused.
EmitConflict ==
    /\ build_pc = "options"
    /\ ways <= 1
    /\ emit_fastq /\ emit_sam
    /\ build_pc' = "exit" /\ build_exit' = 1
    /\ UNCHANGED <<emit_fastq, emit_sam, has_mods_variant, mod_bases,
                   mod_bases_models, stdout_fd, output_mode, trim_options, no_trim,
                   estimate_poly_a, kit_name_used, barcode_arrangement_used,
                   num_devices, remora_runners, num_remora_threads,
                   hardware_concurrency, no_trim_barcodes, no_trim_primers,
                   no_trim_adapters, custom_kit, thread_allocations, pipeline_desc,
                   hts_writer, aligner, current_sink_node, realign_vars, map_vars,
                   run_vars, pipe_vars>>

\* basecaller: --emit-fastq with a selection of modified bases is refused.
FastqModsConflict ==
    /\ build_pc = "options"
    /\ ways <= 1
    /\ emit_fastq /\ ~emit_sam
    /\ has_mods_variant \/ mod_bases \/ mod_bases_models
    /\ build_pc' = "exit" /\ build_exit' = 1
    /\ UNCHANGED <<emit_fastq, emit_sam, has_mods_variant, mod_bases,
                   mod_bases_models, stdout_fd, output_mode, trim_options, no_trim,
                   estimate_poly_a, kit_name_used, barcode_arrangement_used,
                   num_devices, remora_runners, num_remora_threads,
                   hardware_concurrency, no_trim_barcodes, no_trim_primers,
                   no_trim_adapters, custom_kit, thread_allocations, pipeline_desc,
                   hts_writer, aligner, current_sink_node, realign_vars, map_vars,
                   run_vars, pipe_vars>>

\* basecaller: --emit-fastq with --reference is refused.
FastqRefConflict ==
    /\ build_pc = "options"
    /\ ways <= 1
    /\ emit_fastq /\ ~emit_sam
    /\ ~(has_mods_variant \/ mod_bases \/ mod_bases_models)
    /\ ref
    /\ build_pc' = "exit" /\ build_exit' = 1
    /\ UNCHANGED <<emit_fastq, emit_sam, has_mods_variant, mod_bases,
                   mod_bases_models, stdout_fd, output_mode, trim_options, no_trim,
                   estimate_poly_a, kit_name_used, barcode_arrangement_used,
                   num_devices, remora_runners, num_remora_threads,
                   hardware_concurrency, no_trim_barcodes, no_trim_primers,
                   no_trim_adapters, custom_kit, thread_allocations, pipeline_desc,
                   hts_writer, aligner, current_sink_node, realign_vars, map_vars,
                   run_vars, pipe_vars>>

\* The same without the check of --reference.
SelectOutputMode_FastqWithRef ==
    /\ build_pc = "options"
    /\ ways <= 1
    /\ ~(emit_fastq /\ emit_sam)
    /\ emit_fastq => ~(has_mods_variant \/ mod_bases \/ mod_bases_models)
    /\ output_mode' = IF emit_fastq THEN "FASTQ"
                      ELSE IF emit_sam \/ stdout_fd = "tty" THEN "SAM"
                      ELSE IF stdout_fd = "pipe" THEN "UBAM"
                      ELSE "BAM"
    /\ build_pc' = "trim"
    /\ UNCHANGED <<emit_fastq, emit_sam, has_mods_variant, mod_bases,
                   mod_bases_models, stdout_fd, trim_options, no_trim,
                   estimate_poly_a, kit_name_used, barcode_arrangement_used,
                   num_devices, remora_runners, num_remora_threads,
                   hardware_concurrency, no_trim_barcodes, no_trim_primers,
                   no_trim_adapters, custom_kit, build_exit, thread_allocations,
                   pipeline_desc, hts_writer, aligner, current_sink_node,
                   realign_vars, map_vars, run_vars, pipe_vars>>

\* basecaller: the output mode is BAM unless --emit-fastq, --emit-sam or what
\* stdout is selects another.
SelectOutputMode ==
    /\ build_pc = "options"
    /\ ways <= 1
    /\ ~(emit_fastq /\ emit_sam)
    /\ emit_fastq => ~(has_mods_variant \/ mod_bases \/ mod_bases_models)
    /\ emit_fastq => ~ref
    /\ output_mode' = IF emit_fastq THEN "FASTQ"
                      ELSE IF emit_sam \/ stdout_fd = "tty" THEN "SAM"
                      ELSE IF stdout_fd = "pipe" THEN "UBAM"
                      ELSE "BAM"
    /\ build_pc' = "trim"
    /\ UNCHANGED <<emit_fastq, emit_sam, has_mods_variant, mod_bases,
                   mod_bases_models, stdout_fd, trim_options, no_trim,
                   estimate_poly_a, kit_name_used, barcode_arrangement_used,
                   num_devices, remora_runners, num_remora_threads,
                   hardware_concurrency, no_trim_barcodes, no_trim_primers,
                   no_trim_adapters, custom_kit, build_exit, thread_allocations,
                   pipeline_desc, hts_writer, aligner, current_sink_node,
                   realign_vars, map_vars, run_vars, pipe_vars>>

Next_output ==
    \/ ModsConflict
    \/ EmitConflict
    \/ FastqModsConflict
    \/ FastqRefConflict
    \/ SelectOutputMode

\* ------------------------------------------------------- specifications
Init == Init_realign /\ Idle_map /\ Idle_run /\ Idle_build /\ Idle_pipe /\ Idle_output

Next == Next_realign

Spec == Init /\ [][Next]_vars

MapInit == Idle_realign /\ Init_map /\ Idle_run /\ Idle_build /\ Idle_pipe /\ Idle_output

MapNext == Next_map

MapSpec == MapInit /\ [][MapNext]_vars

RunInit ==
    /\ moves = <<>> /\ Idle_realign /\ Idle_map /\ Init_run /\ Idle_build
    /\ Idle_pipe /\ Idle_output

RunNext == Next_run

RunSpec == RunInit /\ [][RunNext]_vars

BuildInit ==
    /\ moves = <<>> /\ Idle_realign /\ Idle_map /\ Idle_run_but_ref
    /\ Init_build /\ Idle_pipe /\ Idle_output

BuildNext == Next_build

BuildSpec == BuildInit /\ [][BuildNext]_vars

PipeInit ==
    /\ moves = <<>> /\ Idle_realign /\ Idle_map /\ Idle_run_but_ref
    /\ Init_build_accepted /\ Init_pipe /\ Idle_output

PipeNext == Next_build_accepted \/ Next_pipe

PipeSpec == PipeInit /\ [][PipeNext]_vars

OptInit ==
    /\ moves = <<>> /\ Idle_realign /\ Idle_map /\ Idle_run_but_ref
    /\ Init_output /\ Idle_pipe

OptNext == Next_output \/ Next_build_accepted

OptSpec == OptInit /\ [][OptNext]_vars

\* Every thread of the process, the driver and the workers, is scheduled.
PipeLiveSpec == PipeSpec /\ WF_vars(PipeNext)


\* ====================================================================
\* Claims about realign_moves (specification Spec)
\* ====================================================================

\* realign_moves returned through line 331 (the walk ended), not the sentinel.
Succeeded == pc = "done" /\ outcome = "returned" /\ ret # failed_realignment

\* The operations of the alignment path the walk has processed.
Walked == SubSeq(alignment, 1, loop_i)

\* The overlap detector reported both sequences whole.
WholeOverlap ==
    overlap_result = <<TRUE, 0, Len(query_sequence), 0, Len(target_sequence)>>

\* C1 (as stated): realigning a move table against a revised sequence equal to
\* the original returns the original move table: for a non-empty s, a table m
\* with as many 1 flags as s has bases, and the overlap detector reporting the
\* two copies of s whole, the call succeeds and returns m.
C1_RoundTrip ==
    (/\ pc = "done"
     /\ query_sequence = target_sequence /\ Len(query_sequence) > 0
     /\ CountOnes(moves) = Len(query_sequence)
     /\ WholeOverlap)
    => (Succeeded /\ ret[3] = moves)

\* C2 (as stated): realign_moves never ends by a thrown exception and never
\* reads a sequence out of range, whatever the sequences and whatever window
\* the overlap detector reports.
C2_FailureIsSentinel ==
    /\ ~seq_oob
    /\ outcome # "threw"

\* C3 (as stated): with an empty original or revised sequence neither the
\* overlap detector nor the edit-distance aligner is invoked.
C3_EmptyBeforeOverlap ==
    (query_sequence = <<>> \/ target_sequence = <<>>)
    => (~overlap_called /\ ~edlib_called)

\* C3 (amended): with an empty original or revised sequence the call returns
\* the failure sentinel, reads nothing out of range and never invokes the
\* edit-distance aligner; the overlap detector is invoked and reports no hit.
C3_EmptyReturnsSentinel ==
    (query_sequence = <<>> \/ target_sequence = <<>>)
    => /\ ~edlib_called /\ ~seq_oob /\ ~oob
       /\ pc \in {"call", "done"}
       /\ pc = "done" => (overlap_called /\ ~is_overlap
                          /\ outcome = "returned" /\ ret = failed_realignment)

C3_Witness ==
    /\ pc = "done" /\ query_sequence # <<>> /\ target_sequence = <<>>
    /\ outcome = "returned" /\ ret = failed_realignment

\* C4 (as stated): on success the returned table has as many 1 flags as the
\* revised sequence has bases in the aligned window (counted from the refined
\* start, or from the returned offset one base before it).  Stated for calls
\* with a move table that fits the original sequence and no out-of-range read.
C4_OnesEqualRevisedBases ==
    (Succeeded /\ CountOnes(moves) = Len(query_sequence) /\ ~seq_oob /\ ~oob)
    => \/ CountOnes(ret[3]) = Len(target_sequence_component)
       \/ CountOnes(ret[3]) = Len(target_sequence_component) + 1

\* The entries by which the new table is longer than the stretch of the old
\* table the walk has consumed.
Surplus == Len(new_moves) - (old_move_cursor - old_moves_offset)

OnesIdx(m) == {i \in 0..(Len(m) - 1) : m[i + 1] = 1}

\* The index of the k-th 1 flag of a table.
KthOne(m, k) ==
    CHOOSE i \in OnesIdx(m) : Cardinality({j \in OnesIdx(m) : j < i}) = k - 1

\* One offset per base: the k-th is (index of the k-th 1 flag) x block stride.
BaseOffsets(m, stride) ==
    [k \in 1..Cardinality(OnesIdx(m)) |-> KthOne(m, k) * stride]

\* moves_to_map has returned.
MapCalled == map_pc \in {"mapped", "done"}

\* C6 (as stated): moves_to_map returns exactly one offset per base, the k-th
\* being (index of the k-th 1 flag) x block stride, and nothing else.
C6_OffsetsOnly ==
    MapCalled => seq_to_sig_map = BaseOffsets(moves, block_stride)

\* C6 (amended): moves_to_map returns one offset per base, the k-th being
\* (index of the k-th 1 flag) x block stride, followed by one last entry, the
\* signal length; the entries increase; for the table of the unit tests with
\* stride 1 and a signal of 13 samples the result is 0,1,5,6,7,10,12,13.
C6_OffsetsThenSignalLen ==
    MapCalled =>
        /\ seq_to_sig_map = Append(BaseOffsets(moves, block_stride), signal_len)
        /\ \A j, k \in 1..Len(seq_to_sig_map) :
              j < k => seq_to_sig_map[j] < seq_to_sig_map[k]
        /\ (moves = TestMoveTable /\ block_stride = 1 /\ signal_len = 13)
              => seq_to_sig_map = <<0, 1, 5, 6, 7, 10, 12, 13>>

\* moves_to_map has returned for the table of the unit tests.
C6_Witness ==
    /\ MapCalled
    /\ moves = TestMoveTable /\ block_stride = 1 /\ signal_len = 13
    /\ Len(seq_to_sig_map) = 8 /\ seq_to_sig_map[8] = 13

\* ====================================================================
\* Claims about resuming a run (specification RunSpec)
\* ====================================================================

\* The read has a whole record in the file.
WholeIn(file, r) == \E k \in 1..Len(file.records) : file.records[k] = WholeRecord(r)

\* The run was given a resume file and returned 0.
ResumedOk == run_pc = "ended" /\ exit_status = 0 /\ resume_from_file

ModelDiffers == resume_from_file /\ ModelOf(artifact.cl) # ModelOf(model_arg)

\* C8: a resume from a file recorded with another model never gets past the
\* validation: setup throws, basecaller returns 1, copy_completed_reads and
\* load_reads are not called, nothing is replayed or read, and the validation
\* is done at most once.
C8_MismatchIsFatal ==
    /\ ModelDiffers =>
          /\ run_pc \in {"fetch", "setup", "check_data", "build", "header",
                         "resume", "catch", "ended"}
          /\ ~copy_called /\ replayed = <<>> /\ out = <<>>
          /\ ~load_called /\ fed = {}
          /\ validations <= 1
          /\ validations = 1 => rejected
          /\ run_pc = "ended" => exit_status = 1
    /\ rejected =>
          /\ ModelDiffers \/ ~is_path(parse_model_argument(artifact.cl))
          /\ run_pc \in {"catch", "ended"}
          /\ validations = 1
          /\ run_pc = "ended" => (exit_status = 1 /\ ended_by = "return")

\* A resume from a file recorded with another model has been rejected and
\* basecaller has returned 1.
C8_Witness ==
    /\ run_pc = "ended" /\ ModelDiffers /\ rejected
    /\ exit_status = 1 /\ ~copy_called /\ ~load_called

\* C9 (as stated): when the resume model mismatch is reported no Pipeline has
\* been created and no output header has been written.
C9_MismatchBeforePipeline ==
    rejected => (pipeline = "none" /\ ~header_written)

\* The resume file holds a whole record of every read of the data path.
CompleteArtifact ==
    artifact.present /\ \A r \in data_reads : WholeIn(artifact, r)

\* C10: a run resumed from an output that holds every read reads nothing from
\* the data path, and when it ends well its output is the replayed records,
\* one of every read; so its output is complete again.
C10_ResumeIdempotent ==
    (resume_from_file /\ CompleteArtifact) =>
        /\ fed = {} /\ in_flight = {}
        /\ (run_pc = "ended" /\ exit_status = 0) =>
              /\ out = replayed
              /\ out = artifact.records
              /\ Ids(out) = data_reads /\ Len(out) = Cardinality(data_reads)

\* A run resumed from a complete output that was itself written by a run
\* resumed from a complete output has ended well.
C10_Witness ==
    /\ ResumedOk /\ CompleteArtifact /\ artifact.parent_complete
    /\ data_reads = Reads /\ fed = {} /\ Len(out) = NumReads

\* ====================================================================
\* Claims about the order of the steps of a run (specification RunSpec)
\* ====================================================================

\* A record has reached the writer, or a step that hands records to it has begun.
RecordsUnderWay ==
    \/ copy_called \/ replayed # <<>>
    \/ load_called \/ fed # {} \/ in_flight # {}
    \/ out # <<>>

\* C11: in every run the writer has written the header (the program line, the
\* read groups and, with the aligner enabled, the reference sequence lines,
\* and no reference sequence line without it) before the resume loader replays
\* a record and before the loader feeds a read, so before the first record
\* reaches the writer.
C11_HeaderBeforeRecords ==
    RecordsUnderWay =>
        /\ header_written
        /\ pipeline # "none"
        /\ {"PG", "RG"} \subseteq hdr
        /\ ("SQ" \in hdr) <=> enable_aligner

\* A run with the aligner enabled has replayed a record and written a read of
\* its own after it.
C11_Witness ==
    /\ header_written /\ "SQ" \in hdr
    /\ replayed # <<>> /\ fed # {}
    /\ Len(out) > Len(replayed)

\* C12: the stats sampler is stopped only after Pipeline::terminate has
\* returned the final stats of a drained pipeline; the last update of the
\* progress tracker and the summary use those final stats, which count every
\* record written; and the pipeline is destroyed only with the sampler stopped
\* (or never started).
C12_SamplerStopsAfterIdle ==
    /\ stats_sampler = "stopped" =>
          /\ pipeline \in {"terminated", "destroyed"}
          /\ in_flight = {}
          /\ final_stats = Len(out)
    /\ summarized =>
          /\ stats_sampler = "stopped"
          /\ progress = final_stats /\ progress = Len(out)
    /\ pipeline = "destroyed" => stats_sampler # "running"
    /\ (run_pc = "ended" /\ exit_status = 0) =>
          (summarized /\ stats_sampler = "stopped" /\ pipeline = "destroyed")

\* A run has ended well, with records written and the summary made.
C12_Witness ==
    /\ run_pc = "ended" /\ exit_status = 0
    /\ summarized /\ stats_sampler = "stopped" /\ pipeline = "destroyed"
    /\ progress = NumReads /\ Len(out) = NumReads

\* ====================================================================
\* Claims about the pipeline descriptor (specification BuildSpec)
\* ====================================================================

NodesOf(type) == { i \in 1..Len(pipeline_desc) : pipeline_desc[i].type = type }

Has(type) == NodesOf(type) # {}

\* The option handling is over and setup has computed the allocations.
Allocated == build_pc \in { "writer", "aligner", "converter", "polya_node", "adapter",
                            "barcode", "filter", "simplex", "built" }

\* Every optional stage has had its turn in the builder.
StagesDecided == build_pc \in { "simplex", "built" }

\* C15: a disabled stage is allocated no thread, and every node of the
\* graph, the poly-A node and the modified-base node included, is
\* constructed with at least one thread.
C15_EnabledStagesHaveThreads ==
    /\ Allocated =>
          /\ (thread_allocations.aligner_threads = 0) <=> ~enable_aligner
          /\ (thread_allocations.barcoder_threads = 0) <=> ~barcode_enabled
          /\ (thread_allocations.adapter_threads = 0) <=> ~adapter_trimming_enabled
          /\ (thread_allocations.remora_threads = 0) <=> ~remora_runners
    /\ \A i \in 1..Len(pipeline_desc) : pipeline_desc[i].threads >= 1

\* C16: every handle given to add_node as a sink is the handle of a node
\* added before; no node names itself, a later node or no node.
C16_SinksAlreadyAdded ==
    /\ \A i \in 1..Len(pipeline_desc) :
           \A h \in pipeline_desc[i].sinks : h \in 1..(i - 1)
    /\ pipeline_desc # <<>> => current_sink_node \in 1..Len(pipeline_desc)

C16_Witness ==
    /\ build_pc = "built"
    /\ Len(pipeline_desc) = 10
    /\ Has("AlignerNode") /\ Has("BarcodeClassifierNode") /\ Has("ModBaseCallerNode")

\* The order in which the builder appends the stages.
BuilderOrder == << "AlignerNode", "ReadToBamType", "PolyACalculator",
                   "AdapterDetectorNode", "BarcodeClassifierNode", "ReadFilterNode" >>

Rank(type) == CHOOSE k \in 1..Len(BuilderOrder) : BuilderOrder[k] = type

Ranked == { BuilderOrder[k] : k \in 1..Len(BuilderOrder) }

\* C17: the stages that are present are appended in the order alignment,
\* format conversion, poly-A, adapter detection, barcode classification,
\* filtering, each once and each in front of the node appended before it.
C17_FixedBuilderOrder ==
    /\ \A i, j \in 1..Len(pipeline_desc) :
           (/\ i < j
            /\ pipeline_desc[i].type \in Ranked
            /\ pipeline_desc[j].type \in Ranked)
           => Rank(pipeline_desc[i].type) < Rank(pipeline_desc[j].type)
    /\ \A i \in 2..Len(pipeline_desc) :
           pipeline_desc[i].type \in Ranked => pipeline_desc[i].sinks = {i - 1}
    /\ pipeline_desc # <<>> => pipeline_desc[1].type = "HtsWriter"

C17_Witness ==
    /\ build_pc = "built"
    /\ Has("AlignerNode") /\ Has("AdapterDetectorNode") /\ Has("BarcodeClassifierNode")
    /\ NodesOf("ReadFilterNode") = {6}

\* C18: once the builder has passed the optional stages, the aligner is in
\* the graph exactly with a reference, the barcode classifier exactly with a
\* kit name or a custom arrangement, the poly-A calculator exactly with
\* --estimate-poly-a, the adapter detector exactly when adapter or primer
\* trimming is not disabled; writer, converter and filter always; and no
\* optional stage is ever in the graph unrequested.
C18_StagePresentIffRequested ==
    /\ StagesDecided =>
          /\ Has("AlignerNode") <=> ref
          /\ Has("BarcodeClassifierNode") <=> (kit_name_used \/ barcode_arrangement_used)
          /\ Has("PolyACalculator") <=> estimate_poly_a
          /\ Has("AdapterDetectorNode") <=> ~(no_trim_adapters /\ no_trim_primers)
          /\ Has("HtsWriter") /\ Has("ReadToBamType") /\ Has("ReadFilterNode")
    /\ Has("AlignerNode") => ref
    /\ Has("BarcodeClassifierNode") => (kit_name_used \/ barcode_arrangement_used)
    /\ Has("PolyACalculator") => estimate_poly_a
    /\ Has("AdapterDetectorNode") => ~(no_trim_adapters /\ no_trim_primers)

C18_Witness ==
    /\ build_pc = "built"
    /\ barcode_arrangement_used /\ ~kit_name_used /\ Has("BarcodeClassifierNode")
    /\ ~ref /\ ~Has("AlignerNode")
    /\ no_trim_primers /\ ~no_trim_adapters /\ Has("AdapterDetectorNode")
    /\ ~Has("PolyACalculator")

\* C19: no graph holds both the poly-A calculator and the adapter detector:
\* --estimate-poly-a switches adapter and primer trimming off before setup,
\* and with --trim primers, adapters or all the run ends in failure with
\* nothing built.
C19_PolyAExcludesAdapterDetector ==
    /\ ~(Has("PolyACalculator") /\ Has("AdapterDetectorNode"))
    /\ (estimate_poly_a /\ (Allocated \/ build_pc \in {"kit", "setup"}))
           => (no_trim_primers /\ no_trim_adapters /\ ~adapter_trimming_enabled)
    /\ (estimate_poly_a /\ trim_options \in {"primers", "adapters", "all"})
           => (pipeline_desc = <<>> /\ build_pc \in {"trim", "polya", "exit"})
    /\ build_pc = "exit" => (build_exit = 1 /\ pipeline_desc = <<>>)

C19_Witness ==
    /\ build_pc = "built"
    /\ estimate_poly_a /\ trim_options = "" /\ ~no_trim
    /\ Has("PolyACalculator") /\ ~Has("AdapterDetectorNode")
    /\ ~no_trim_barcodes

\* ====================================================================
\* Claims about empty input (specification RunSpec)
\* ====================================================================

\* C20: with no data or no read in the data path, no basecall runner and no
\* pipeline is ever created, no header is written, nothing is replayed or
\* fed, and the run ends with a non-zero status.
C20_EmptyInputBuildsNothing ==
    data_reads = {} =>
        /\ ~runners /\ pipeline = "none" /\ stats_sampler = "none"
        /\ ~header_written /\ hdr = {}
        /\ ~copy_called /\ ~load_called /\ fed = {} /\ in_flight = {} /\ out = <<>>
        /\ run_pc \notin { "build", "header", "resume", "copy", "loader", "load",
                            "loading", "terminate", "sampler_stop", "summarize",
                            "return" }
        /\ run_pc = "ended" => (exit_status = 1 /\ ended_by \in {"exit", "return"})

C20_Witness ==
    /\ data_reads = {}
    /\ run_pc = "ended" /\ exit_status = 1 /\ ended_by = "exit"
    /\ model_name # ""
    /\ ~runners /\ pipeline = "none" /\ ~header_written

\* ====================================================================
\* Claims about the pipeline at work (specifications PipeSpec, PipeLiveSpec)
\* ====================================================================

Entered == { WholeRead(r) : r \in PipeReads \ source_left }

WrittenSet == { rec \in AllRecords : written[rec] > 0 }

\* The record ended in exactly one way: written once, or dropped and counted.
Accounted(rec) ==
    \/ written[rec] = 1 /\ rec \notin dropped
    \/ written[rec] = 0 /\ rec \in dropped

Untouched(rec) == written[rec] = 0 /\ rec \notin dropped

TerminateSafe ==
    /\ terminate_calls <= 1
    /\ pipe_pc \in {"terminating", "terminated"} =>
           (source_left = {} /\ terminate_calls = 1)
    /\ pipe_pc = "terminated" =>
           /\ InFlight = {}
           /\ terminate_stats = node_stats
           /\ terminate_stats.written = Cardinality(WrittenSet)
           /\ terminate_stats.filtered = Cardinality(dropped)

\* The record reached the output or a counted drop, as itself or as its
\* sub-reads.
Settled(rec) ==
    \/ Accounted(rec)
    \/ rec.part = 0 /\ \A sub \in SubReads(rec) : Accounted(sub)

C25_ReturnsWindowStart ==
    (Succeeded /\ ~seq_oob /\ ~oob /\ CountOnes(moves) > query_start)
    => /\ ret[1] = KthOne(moves, query_start + 1)
       /\ ret[2] = target_start

\* C26: the boundary refinement never reads a sequence at or past its
\* length, and when it stops both starts are inside their sequences, not
\* past the ends of their windows, at equal bases.
C26_RefineStopsInside ==
    /\ ~seq_oob
    /\ pc = "refine" => (query_start < Len(query_sequence)
                         /\ target_start < Len(target_sequence))
    /\ pc \in {"substr", "scan", "walk"} =>
          /\ query_start < Len(query_sequence)
          /\ target_start < Len(target_sequence)
          /\ query_start <= query_end /\ target_start <= target_end
          /\ query_sequence[query_start + 1] = target_sequence[target_start + 1]

\* C27: when the walk has ended, it has processed every operation of the
\* alignment path, once each and in path order.
C27_WalkProcessesWholePath ==
    Succeeded => (loop_i = Len(alignment) /\ Walked = alignment)

\* C29: no read of the original move table, in the scan or in the loops of
\* the walk, uses an index outside the table.
C29_MoveReadsInRange ==
    /\ ~oob
    /\ pc \in {"skip_match", "skip_ins"} => MoveInRange(old_move_cursor)
    /\ (pc = "scan" /\ ScanCondition) => MoveInRange(old_move_cursor)

\* ====================================================================
\* Claims about trim_move_table (specification MapSpec)
\* ====================================================================

\* The index of the start flag of base k of a table, or the length of the
\* table when it has no base k.
StartOf(m, k) == IF k < CountOnes(m) THEN KthOne(m, k + 1) ELSE Len(m)

\* C22: trim_move_table(moves, [a, b)) returns the number of entries before
\* the start flag of base a, and the entries from the start flag of base a
\* up to the start flag of base b, or to the end of the table when it has no
\* base b; for a table that begins with a start flag the full interval
\* returns (0, moves) and [0, 0) returns (0, empty); [3, 5) on the table of
\* the unit tests returns (6, [1, 1, 0, 0]).
C22_TrimIsSliceBetweenStartFlags ==
    trimmed # NotTrimmed =>
        LET a == trim_interval[1]
            b == trim_interval[2]
        IN  /\ trimmed[1] = StartOf(moves, a)
            /\ trimmed[2] = SubSeq(moves, StartOf(moves, a) + 1, StartOf(moves, b))
            /\ (moves # <<>> /\ moves[1] = 1 /\ a = 0 /\ b >= CountOnes(moves))
                   => trimmed = <<0, moves>>
            /\ (moves # <<>> /\ moves[1] = 1 /\ a = 0 /\ b = 0) => trimmed = <<0, <<>>>>
            /\ (moves = TestMoveTable /\ a = 3 /\ b = 5) => trimmed = <<6, <<1, 1, 0, 0>>>>

C22_Witness ==
    /\ moves = TestMoveTable /\ trim_interval = <<3, 5>>
    /\ trimmed = <<6, <<1, 1, 0, 0>>>>

\* ====================================================================
\* Claims about the options of the output format (specification OptSpec)
\* ====================================================================

AnyMods == has_mods_variant \/ mod_bases \/ mod_bases_models

\* basecaller has passed the checks of the output format.
PastOptions == build_pc \notin {"off", "options", "exit"}

\* C21: with at most one way of selecting the modified bases, --emit-fastq
\* together with --emit-sam, with --reference or with modified bases makes
\* basecaller exit with a failure status before setup is called and before
\* anything is built; every other combination gets past the checks with
\* exactly one output mode: FASTQ with --emit-fastq, else SAM with
\* --emit-sam or a terminal, else UBAM into a pipe, else BAM.
C21_OutputFlagsExclusive ==
    /\ (emit_fastq /\ (emit_sam \/ ref \/ AnyMods)) =>
           (build_pc \in {"options", "exit"} /\ pipeline_desc = <<>>)
    /\ build_pc = "exit" =>
           /\ build_exit = 1 /\ pipeline_desc = <<>> /\ output_mode = "unset"
           /\ ways > 1 \/ (emit_fastq /\ (emit_sam \/ ref \/ AnyMods))
    /\ PastOptions =>
           /\ output_mode \in {"FASTQ", "SAM", "UBAM", "BAM"}
           /\ output_mode = "FASTQ" <=> emit_fastq
           /\ output_mode = "SAM" <=> (~emit_fastq /\ (emit_sam \/ stdout_fd = "tty"))
           /\ output_mode = "UBAM" <=>
                  (~emit_fastq /\ ~emit_sam /\ stdout_fd = "pipe")
    /\ ~PastOptions => pipeline_desc = <<>>

C21_Witness ==
    /\ build_pc = "exit" /\ build_exit = 1
    /\ emit_fastq /\ ~emit_sam /\ ref /\ ~AnyMods
    /\ pipeline_desc = <<>> /\ output_mode = "unset"

\* ====================================================================
\* Claims about the queues of the pipeline (specification PipeSpec)
\* ====================================================================

\* The read is somewhere: waiting or settled, as itself or as its sub-reads.
Present(r) ==
    \/ WholeRead(r) \in InFlight
    \/ Accounted(WholeRead(r))
    \/ \A sub \in SubReads(WholeRead(r)) : sub \in InFlight \/ Accounted(sub)

\* Some worker holds a message it cannot push: a sink of its node is full.
ProducerBlocked ==
    \E i \in DOMAIN queue : queue[i] # {} /\ pipeline_desc[i].sinks # {} /\ ~HasRoom(i, 1)

RECURSIVE PathFrom(_, _)
PathFrom(i, n) ==
    IF n = 0 \/ pipeline_desc[i].sinks = {}
    THEN << pipeline_desc[i].type >>
    ELSE << pipeline_desc[i].type >>
         \o PathFrom(CHOOSE h \in pipeline_desc[i].sinks : TRUE, n - 1)

Opt(present, type) == IF present THEN << type >> ELSE << >>

\* The path the options ask for, from the read filter to the writer.
SpinePath ==
    << "ReadFilterNode" >>
    \o Opt(kit_name_used \/ barcode_arrangement_used, "BarcodeClassifierNode")
    \o Opt(~(no_trim_adapters /\ no_trim_primers), "AdapterDetectorNode")
    \o Opt(estimate_poly_a, "PolyACalculator")
    \o << "ReadToBamType" >>
    \o Opt(ref, "AlignerNode")
    \o << "HtsWriter" >>

C28_ComparesByName ==
    (resume_from_file /\ validations = 1) =>
        (rejected <=> ModelOf(artifact.cl) # ModelOf(model_arg))

\* ====================================================================
\* Claims about the downloaded models (specification RunSpec)
\* ====================================================================

\* C30 (as stated): however basecaller ends, by return or by exit, the
\* temporary models it downloaded have been cleaned up by then.
C30_TempModelsCleaned ==
    (run_pc = "ended" /\ temp_download_paths) => temp_cleaned

====
